---- MODULE Spec2Model ----
(***************************************************************************)
(* Dependency selection of vsce's package managers:                        *)
(*   - the multi-package key splitter of the deno.lock resolver,           *)
(*   - the yarn tree resolver (types.ts),                                  *)
(*   - the deno.lock graph resolver (deno.ts).                             *)
(*                                                                         *)
(* A JavaScript string is a sequence of one-character strings, indexed     *)
(* from 0 by the operators below as the String methods index it.  A path   *)
(* is a sequence of segments, each segment a string.  A JavaScript object  *)
(* used as a map is the sequence of its <<key, value>> entries in          *)
(* insertion order, which is the order Object.keys, Object.entries and     *)
(* for..in enumerate (no key of the model is an integer index).            *)
(***************************************************************************)
EXTENDS Integers, Sequences, FiniteSets, TLC

VARIABLES
    \* the splitter: the pairs a key is joined from, the key, the outcome
    sPairs, sKey, sOut, sPc,
    \* the tree resolver: the raw forest of `yarn list`, the allow-list,
    \* the normalized forest, the visited list, the pending visits, the
    \* Selection, the position in the call, the error thrown
    yTrees, yAllow, yDeps, yReached, yTodo, yResult, yPc, yErr,
    \* the lockfile resolver: the lock document, the package.json files of
    \* the workspace, the allow-list, workspacesWithLocalDeps, the workspace
    \* frontier, registryDependencies, the registry frontier,
    \* collectedDependencyPaths, the loop counter, the token popped last and
    \* the entry it resolved to, the Selection, the position in the call,
    \* the error thrown
    dLock, dFs, dAllow, dCatalog, dWsFrontier, dRegDeps, dFrontier, dCollected,
    dI, dToken, dEntry, dResult, dPc, dErr,
    \* the lockfile resolver's files: the project directory (cwd), the disk
    \* (the directories that hold a deno.lock, the symbolic links, the paths
    \* that do not exist), the directory findDenoLock looks at next, the
    \* directory of the lock file found, the places of
    \* collectedDependencyPaths that hold the promise of a realpath, what
    \* Promise.all has of each place while the call awaits it, the places
    \* whose realpath has called back, and those of them whose promise
    \* rejected with no handler attached (an unhandled rejection)
    dCwd, dDisk, dDir, dLockDir, dPromised, dValues, dCalled, dUnhandled,
    \* the detection: the project directory, the yarn markers that exist in
    \* it, the directories that hold a deno.lock, the id the caller passes
    \* (a member of PackageManager, or nothing), the place in the probe
    \* order, the package managers probed, the definition returned, the
    \* position in the call, the marker detectYarn stats next, the
    \* directory findDenoLock stats next, the error thrown, the writes of
    \* other processes to the directories so far
    gCwd, gMarkers, gLockDirs, gId, gAt, gProbed, gOut, gPc, gMarker, gDir, gErr,
    gWrites,
    \* exec: whether a cancellation token is passed, whether cp.exec can
    \* spawn the shell, what the subprocess ends with when left alone, the
    \* error the token cancels with, how often the token was cancelled, the
    \* child process, the cancellation listener, the promise returned, the
    \* calls of c and e so far, the calls of child.kill, what its signals
    \* were sent to, the runs of the listener and of the callback of cp.exec
    \* in their order, the position in the call
    xToken, xSpawned, xOutcome, xCancelError, xCancelled, xChild, xListener,
    xPromise, xCalls, xKills, xSignalled, xEvents, xPc,
    \* the enumeration-only resolver: what `npm -v` ends with, what
    \* `npm list` ends with, the paths returned, the position in the call,
    \* the error thrown
    nVersion, nListing, nResult, nPc, nErr,
    \* the location of the lock document: the project directory, the
    \* directories that hold a deno.lock, what detectDeno answered, the lock
    \* file getDenoDependencies found, the error thrown, the position, the
    \* directory each of the two calls stats next, the writes of other
    \* processes to the directories so far
    lCwd, lLockDirs, lDetected, lLock, lErr, lPc, lDir, lDetectDir, lWrites

splitVars == <<sPairs, sKey, sOut, sPc>>
yarnVars == <<yTrees, yAllow, yDeps, yReached, yTodo, yResult, yPc, yErr>>
denoVars == <<dLock, dFs, dAllow, dCatalog, dWsFrontier, dRegDeps, dFrontier,
              dCollected, dI, dToken, dEntry, dResult, dPc, dErr,
              dCwd, dDisk, dDir, dLockDir, dPromised, dValues, dCalled, dUnhandled>>
detectVars == <<gCwd, gMarkers, gLockDirs, gId, gAt, gProbed, gOut, gPc, gMarker,
                gDir, gErr, gWrites>>
execVars == <<xToken, xSpawned, xOutcome, xCancelError, xCancelled, xChild,
              xListener, xPromise, xCalls, xKills, xSignalled, xEvents, xPc>>
npmVars == <<nVersion, nListing, nResult, nPc, nErr>>
locateVars == <<lCwd, lLockDirs, lDetected, lLock, lErr, lPc, lDir, lDetectDir,
                lWrites>>
vars == <<splitVars, yarnVars, denoVars, detectVars, execVars, locateVars, npmVars>>
\* what the operations of one resolver leave alone
notSplit == <<yarnVars, denoVars, detectVars, execVars, locateVars, npmVars>>
notYarn == <<splitVars, denoVars, detectVars, execVars, locateVars, npmVars>>
notDeno == <<splitVars, yarnVars, detectVars, execVars, locateVars, npmVars>>
notDetect == <<splitVars, yarnVars, denoVars, execVars, locateVars, npmVars>>
notExec == <<splitVars, yarnVars, denoVars, detectVars, locateVars, npmVars>>
notLocate == <<splitVars, yarnVars, denoVars, detectVars, execVars, npmVars>>
notNpm == <<splitVars, yarnVars, denoVars, detectVars, execVars, locateVars>>

----------------------------------------------------------------------------
(* Bounds of the model. *)

\* longest chain of name@version pairs joined into one lock key
MaxPairs == 3
\* most top-level trees of a raw forest
MaxTop == 2

----------------------------------------------------------------------------
(* JavaScript String methods. *)

MinOf(S) == CHOOSE x \in S : \A y \in S : x <= y
MaxOf(S) == CHOOSE x \in S : \A y \in S : x >= y

\* s.indexOf(c, from)
IndexOfFrom(s, c, from) ==
    LET f == IF from < 0 THEN 0 ELSE from
        at == {i \in f..(Len(s) - 1) : s[i + 1] = c}
    IN IF at = {} THEN -1 ELSE MinOf(at)

\* s.indexOf(c)
IndexOf(s, c) == IndexOfFrom(s, c, 0)

\* s.lastIndexOf(c)
LastIndexOf(s, c) ==
    LET at == {i \in 0..(Len(s) - 1) : s[i + 1] = c}
    IN IF at = {} THEN -1 ELSE MaxOf(at)

\* s.charAt(i): the empty string outside the string
CharAt(s, i) == IF i >= 0 /\ i < Len(s) THEN <<s[i + 1]>> ELSE <<>>

\* s.slice(a, b) for 0 <= a
Slice(s, a, b) == SubSeq(s, a + 1, IF b > Len(s) THEN Len(s) ELSE b)

\* s.slice(a) for 0 <= a
SliceFrom(s, a) == SubSeq(s, a + 1, Len(s))

\* s.includes(c)
Includes(s, c) == IndexOf(s, c) # -1

\* s.startsWith(p)
StartsWith(s, p) == Len(p) <= Len(s) /\ SubSeq(s, 1, Len(p)) = p

\* s.split(c, 2): the string is cut at every c and the first two pieces are
\* kept; what follows a second c is dropped.
SplitLimit2(s, c) ==
    LET i == IndexOf(s, c)
    IN IF i = -1 THEN <<s>>
       ELSE LET rest == SliceFrom(s, i + 1)
                j == IndexOf(rest, c)
            IN <<Slice(s, 0, i), IF j = -1 THEN rest ELSE Slice(rest, 0, j)>>

\* s.replace(c, d) with a string pattern: the first occurrence only
ReplaceFirst(s, c, d) ==
    LET i == IndexOf(s, c)
    IN IF i = -1 THEN s ELSE Slice(s, 0, i) \o <<d>> \o SliceFrom(s, i + 1)

\* a thrown Error, and a returned value
Throw(e) == [ok |-> FALSE, err |-> e]
\* a throw out of a loop that has already written v
ThrowAfter(e, v) == [ok |-> FALSE, err |-> e, val |-> v]
Return(v) == [ok |-> TRUE, val |-> v]

\* Set.prototype.add on a set kept in insertion order
SetAdd(set, x) ==
    IF \E i \in 1..Len(set) : set[i] = x THEN set ELSE Append(set, x)

\* Array.prototype.includes
ArrayIncludes(arr, x) == \E i \in 1..Len(arr) : arr[i] = x

\* the elements of a Set that starts as acc and has every element of arr
\* added in order: new Set(arr), result.add(x) in a loop, and the array
\* Array.from or a spread makes of it
RECURSIVE ArrayFromSet(_, _)
ArrayFromSet(arr, acc) ==
    IF arr = <<>> THEN acc ELSE ArrayFromSet(Tail(arr), SetAdd(acc, Head(arr)))

----------------------------------------------------------------------------
(* deno.ts: name@version splitting. *)

\* splitPackageAtVersion: [name, version | undefined], or a throw on an
\* empty version.
splitPackageAtVersion(packageAtVersion) ==
    LET colonOffset == IndexOf(packageAtVersion, ":")
        initialOffset == IF CharAt(packageAtVersion, colonOffset + 1) = <<"@">>
                         THEN colonOffset + 2 ELSE colonOffset + 1
        cutPoint == IndexOfFrom(packageAtVersion, "@", initialOffset)
    IN IF cutPoint = -1
       THEN Return([name |-> packageAtVersion, hasVersion |-> FALSE, version |-> <<>>])
       ELSE LET version == SliceFrom(packageAtVersion, cutPoint + 1)
            IN IF version = <<>>
               THEN Throw("InvalidPackageAtVersion")
               ELSE Return([name |-> Slice(packageAtVersion, 0, cutPoint),
                            hasVersion |-> TRUE, version |-> version])

\* the loop of splitMultiPackageAtVersion, from iteration i
RECURSIVE SplitMultiLoop(_, _, _, _)
SplitMultiLoop(packageAtVersion, produced, i, maxIters) ==
    IF i >= maxIters THEN Throw("ExceededMaxIters")
    ELSE LET r == splitPackageAtVersion(packageAtVersion)
         IN IF ~r.ok THEN r
            ELSE IF ~(r.val.hasVersion /\ Includes(r.val.version, "@"))
            THEN Return(Append(produced, packageAtVersion))
            ELSE IF IndexOf(r.val.version, "_") = -1
            THEN Throw("InvalidMultiPackage")
            ELSE LET parts == SplitLimit2(r.val.version, "_")
                 IN SplitMultiLoop(parts[2],
                                   Append(produced, r.val.name \o <<"@">> \o parts[1]),
                                   i + 1, maxIters)

\* splitMultiPackageAtVersion
splitMultiPackageAtVersion(packageAtVersion) ==
    SplitMultiLoop(packageAtVersion, <<>>, 0, Len(packageAtVersion))

----------------------------------------------------------------------------
(* The splitter on lock keys joined from name@version pairs. *)

\* name@version pairs whose names and versions hold no underscore; one
\* name is scoped
SplitPairs ==
    { <<"a", "@", "1">>,
      <<"b", "@", "2", ".", "0">>,
      <<"@", "s", "/", "c", "@", "1">>,
      <<"d", "e", "@", "3">> }

RECURSIVE JoinPairs(_)
JoinPairs(ps) ==
    IF ps = <<>> THEN <<>>
    ELSE IF Len(ps) = 1 THEN ps[1]
    ELSE ps[1] \o <<"_">> \o JoinPairs(Tail(ps))

PairLists == UNION {[1..k -> SplitPairs] : k \in 1..MaxPairs}

\* pairs of the doc comment's other examples: a name with an underscore
\* (string_utils) and a version with an underscore (1.2.3.alpha_4)
PairUnderscoreName == <<"s", "_", "u", "@", "2">>
PairUnderscoreVersion == <<"a", "@", "1", ".", "x", "_", "4">>
UnderscoreLists ==
    { <<PairUnderscoreVersion>>,
      <<PairUnderscoreName>>,
      << <<"a", "@", "1">>, PairUnderscoreName >>,
      << PairUnderscoreName, <<"a", "@", "1">> >> }

SplitIdle ==
    /\ sPairs = <<>>
    /\ sKey = <<>>
    /\ sOut = Throw("NotRun")
    /\ sPc = "idle"

SplitInit ==
    /\ sPairs \in PairLists \cup UnderscoreLists
    /\ sKey = JoinPairs(sPairs)
    /\ sOut = Throw("NotRun")
    /\ sPc = "start"

SplitApply ==
    /\ sPc = "start"
    /\ sOut' = splitMultiPackageAtVersion(sKey)
    /\ sPc' = "done"
    /\ UNCHANGED <<sPairs, sKey, notSplit>>

SplitNext == SplitApply

----------------------------------------------------------------------------
(* path.join *)

\* s.split("/"): every piece
RECURSIVE SplitSlash(_)
SplitSlash(s) ==
    LET i == IndexOf(s, "/")
    IN IF i = -1 THEN <<s>>
       ELSE <<Slice(s, 0, i)>> \o SplitSlash(SliceFrom(s, i + 1))

\* a path other than the root that ends with "/" holds an empty last
\* segment: "/cwd/" is the segment cwd and the empty segment
TrailingSlash(p) == p # <<>> /\ p[Len(p)] = <<>>
\* the path without its trailing separator
Trimmed(p) == IF TrailingSlash(p) THEN SubSeq(p, 1, Len(p) - 1) ELSE p

\* the normalization of path.join over the pieces of one argument: an empty
\* piece and "." are dropped, ".." removes the last segment, and an empty
\* last piece (the argument ends with "/") leaves a trailing separator on
\* every path but the root
RECURSIVE JoinPieces(_, _)
JoinPieces(prefix, pieces) ==
    IF pieces = <<>> THEN prefix
    ELSE LET p == Head(pieces)
             next == IF p = <<>> /\ Tail(pieces) = <<>>
                     THEN (IF prefix = <<>> THEN prefix ELSE Append(prefix, <<>>))
                     ELSE IF p = <<>> \/ p = <<".">> THEN prefix
                     ELSE IF p = <<".", ".">>
                     THEN (IF prefix = <<>> THEN prefix
                           ELSE SubSeq(prefix, 1, Len(prefix) - 1))
                     ELSE Append(prefix, p)
         IN JoinPieces(next, Tail(pieces))

\* path.join(prefix, s) for an absolute, normalized prefix: an empty
\* argument is skipped, the trailing separator of the prefix goes when an
\* argument follows it
PathJoin(prefix, s) ==
    IF s = <<>> THEN prefix ELSE JoinPieces(Trimmed(prefix), SplitSlash(s))

\* the project root (cwd)
Cwd == << <<"cwd">> >>
NodeModules == <<"node_modules">>

----------------------------------------------------------------------------
(* types.ts: the tree resolver. *)

\* /@[\^~]/.test(label)
HasRangeOperatorCaretOnly(label) ==
    \E i \in 1..(Len(label) - 1) : label[i] = "@" /\ label[i + 1] = "^"
HasRangeOperator(label) ==
    \E i \in 1..(Len(label) - 1) : label[i] = "@" /\ label[i + 1] \in {"^", "~"}

\* the characters of a version or range that parse-semver accepts
RangeChars == {"0", "1", "2", "3", ".", "^", "~"}

\* parseSemver(label) of the parse-semver package: the name before the
\* version's "@" when the version is a valid range, a throw otherwise
parseSemver(label) ==
    LET at == LastIndexOf(label, "@")
        version == SliceFrom(label, at + 1)
    IN IF at <= 0 \/ version = <<>>
          \/ \E i \in 1..Len(version) : version[i] \notin RangeChars
       THEN Throw("InvalidSemver")
       ELSE Return(Slice(label, 0, at))

\* the line terminators "." of a regular expression does not match: line
\* feed, carriage return, and the line separator U+2028 and the paragraph
\* separator U+2029, which a label holds as the element "\\u2028" or
\* "\\u2029" (the module's character set has no such character)
LineTerminators == {"\n", "\r", "\\u2028", "\\u2029"}

\* label.replace(/^([^@+])@.*$/, '$1'): one character that is neither "@"
\* nor "+", then "@", then up to the end of the label no line terminator:
\* the character; any other label: the label unchanged
FallbackName(label) ==
    IF /\ Len(label) >= 2
       /\ label[1] \notin {"@", "+"}
       /\ label[2] = "@"
       /\ \A i \in 3..Len(label) : label[i] \notin LineTerminators
    THEN <<label[1]>>
    ELSE label

\* the name asYarnDependency gives a raw label
NodeName(label) ==
    LET parseResult == parseSemver(label)
    IN IF parseResult.ok THEN parseResult.val ELSE FallbackName(label)

\* asYarnDependency: <<>> for null, <<node>> otherwise
RECURSIVE asYarnDependency(_, _, _)
RECURSIVE asYarnChildren(_, _, _)
asYarnDependency(prefix, tree, prune) ==
    IF prune /\ HasRangeOperator(tree.name) THEN <<>>
    ELSE LET name == NodeName(tree.name)
         IN << [name |-> name,
                path |-> PathJoin(prefix, name),
                children |-> asYarnChildren(
                    PathJoin(PathJoin(prefix, name), NodeModules),
                    tree.children, prune)] >>

\* the loop over tree.children, keeping the non-null results
asYarnChildren(prefix, kids, prune) ==
    IF kids = <<>> THEN <<>>
    ELSE asYarnDependency(prefix, Head(kids), prune)
         \o asYarnChildren(prefix, Tail(kids), prune)

\* the index's constructor throws: a name is seen more than once
IndexDuplicateNever(deps) == FALSE
IndexDuplicate(deps) ==
    \E i, j \in 1..Len(deps) : i < j /\ deps[i].name = deps[j].name

\* index.find(name): the position of the indexed node, 0 when there is none
IndexFind(deps, name) ==
    LET at == {i \in 1..Len(deps) : deps[i].name = name}
    IN IF at = {} THEN 0 ELSE MinOf(at)

\* the names of a node's children, in order
ChildNames(dep) == [i \in 1..Len(dep.children) |-> dep.children[i].name]

\* flatten of getYarnDependencies: the node's path and its descendants'
RECURSIVE FlattenPaths(_)
RECURSIVE FlattenEach(_)
FlattenShallow(dep) == <<dep.path>>
FlattenPaths(dep) == <<dep.path>> \o FlattenEach(dep.children)
\* deps.forEach(flatten): the paths in the order result.add is called on them
FlattenEach(deps) ==
    IF deps = <<>> THEN <<>> ELSE FlattenPaths(Head(deps)) \o FlattenEach(Tail(deps))

----------------------------------------------------------------------------
(* The raw forests and allow-lists the tree resolver is run on. *)

Raw(label, kids) == [name |-> label, children |-> kids]

La1 == <<"a", "@", "1">>
La2 == <<"a", "@", "2">>
Lb1 == <<"b", "@", "1">>
Lc1 == <<"c", "@", "1">>
LaCaret == <<"a", "@", "^", "1">>
LbCaret == <<"b", "@", "^", "1">>
LbTilde == <<"b", "@", "~", "1">>
\* labels parse-semver rejects
LbbBad == <<"b", "b", "@", "?">>
LaBad == <<"a", "@", "?">>
\* a label with an escaped line feed after its "@"
LcLine == <<"c", "@", "\n">>
LcSeparator == <<"c", "@", "\\u2028">>

TopTrees ==
    { Raw(La1, <<>>),
      Raw(La2, <<>>),
      Raw(Lb1, <<>>),
      Raw(La1, <<Raw(LbCaret, <<>>)>>),
      Raw(Lb1, <<Raw(La1, <<Raw(LbTilde, <<>>)>>)>>),
      Raw(LaCaret, <<Raw(Lb1, <<>>)>>),
      Raw(Lb1, <<Raw(Lc1, <<>>), Raw(LaCaret, <<>>)>>),
      Raw(Lb1, <<Raw(LaCaret, <<>>), Raw(La1, <<>>)>>),
      Raw(Lc1, <<Raw(LaCaret, <<Raw(Lb1, <<>>)>>)>>),
      Raw(La1, <<Raw(Lb1, <<Raw(Lc1, <<>>)>>)>>),
      Raw(LbbBad, <<>>),
      Raw(LaBad, <<Raw(Lb1, <<>>)>>),
      Raw(LcLine, <<>>),
      Raw(LcSeparator, <<>>) }

Forests == UNION {[1..k -> TopTrees] : k \in 0..MaxTop}

\* packagedDependencies: undefined, or a list of names
NoAllowList == [given |-> FALSE, names |-> <<>>]
AllowList(names) == [given |-> TRUE, names |-> names]
YarnAllowLists ==
    { NoAllowList,
      AllowList(<<>>),
      AllowList(<< <<"a">> >>),
      AllowList(<< <<"b">> >>),
      AllowList(<< <<"a">>, <<"b">> >>),
      AllowList(<< <<"b">>, <<"b">> >>),
      AllowList(<< <<"c">> >>),
      AllowList(<< <<"b", "b">> >>) }

YarnIdle ==
    /\ yTrees = <<>>
    /\ yAllow = NoAllowList
    /\ yDeps = <<>>
    /\ yReached = <<>>
    /\ yTodo = <<>>
    /\ yResult = <<>>
    /\ yPc = "idle"
    /\ yErr = ""

YarnInit ==
    /\ yTrees \in Forests
    /\ yAllow \in YarnAllowLists
    /\ yDeps = <<>>
    /\ yReached = <<>>
    /\ yTodo = <<>>
    /\ yResult = <<>>
    /\ yPc = "start"
    /\ yErr = ""

\* getYarnProductionDependencies: the trees mapped through asYarnDependency,
\* pruning exactly when no allow-list is given
YarnNormalize ==
    /\ yPc = "start"
    /\ yDeps' = asYarnChildren(PathJoin(Cwd, NodeModules), yTrees, ~yAllow.given)
    /\ yPc' = IF yAllow.given THEN "index" ELSE "flatten"
    /\ UNCHANGED <<yTrees, yAllow, yReached, yTodo, yResult, yErr, notYarn>>

\* selectYarnDependencies: the index is built over the top-level nodes
YarnIndex ==
    /\ yPc = "index"
    /\ IF IndexDuplicate(yDeps)
       THEN /\ yPc' = "failed"
            /\ yErr' = "DuplicateName"
            /\ UNCHANGED yTodo
       ELSE /\ yPc' = "visit"
            /\ yTodo' = yAllow.names
            /\ UNCHANGED yErr
    /\ UNCHANGED <<yTrees, yAllow, yDeps, yReached, yResult, notYarn>>

\* one call of visit(name): the pending calls are those of the loop over
\* the children, then those of packagedDependencies.forEach
YarnVisit ==
    /\ yPc = "visit"
    /\ yTodo # <<>>
    /\ LET dep == IndexFind(yDeps, Head(yTodo))
       IN IF dep = 0
          THEN /\ yPc' = "failed"
               /\ yErr' = "MissingDependency"
               /\ UNCHANGED <<yReached, yTodo>>
          ELSE IF \E i \in 1..Len(yReached) : yReached[i] = dep
          THEN /\ yTodo' = Tail(yTodo)
               /\ UNCHANGED <<yReached, yPc, yErr>>
          ELSE /\ yReached' = Append(yReached, dep)
               /\ yTodo' = ChildNames(yDeps[dep]) \o Tail(yTodo)
               /\ UNCHANGED <<yPc, yErr>>
    /\ UNCHANGED <<yTrees, yAllow, yDeps, yResult, notYarn>>

\* selectYarnDependencies returns reached.values
YarnSelected ==
    /\ yPc = "visit"
    /\ yTodo = <<>>
    /\ yPc' = "flatten"
    /\ UNCHANGED <<yTrees, yAllow, yDeps, yReached, yTodo, yResult, yErr, notYarn>>

\* the nodes getYarnProductionDependencies returns
YarnReturned ==
    IF yAllow.given THEN [i \in 1..Len(yReached) |-> yDeps[yReached[i]]] ELSE yDeps

\* getYarnDependencies: a Set that starts with the root and has the path of
\* every flattened node added, spread into the array returned
YarnFlatten ==
    /\ yPc = "flatten"
    /\ yResult' = ArrayFromSet(FlattenEach(YarnReturned), <<Cwd>>)
    /\ yPc' = "done"
    /\ UNCHANGED <<yTrees, yAllow, yDeps, yReached, yTodo, yErr, notYarn>>

YarnNext ==
    \/ YarnNormalize
    \/ YarnIndex
    \/ YarnVisit
    \/ YarnSelected
    \/ YarnFlatten



----------------------------------------------------------------------------
(* deno.ts: the lock document. *)

\* safety limit of both drains.  The source sets 10000; the model scales it
\* down so that a drain that never empties reaches it, and keeps it above
\* the length of every drain that empties on the documents of the model.
MAX_ITERS == 12

NpmId == <<"n", "p", "m">>
JsrId == <<"j", "s", "r">>
KNOWN_REGISTRIES == <<NpmId, JsrId>>

\* `${undefined}` in a template string
UndefinedText == <<"u", "n", "d", "e", "f", "i", "n", "e", "d">>

\* a registry section of the lock document: absent, or its entries in
\* document order; an entry without dependencies has the empty list
Absent == [present |-> FALSE, entries |-> <<>>]
Present(entries) == [present |-> TRUE, entries |-> entries]
Entry(key, deps) == [key |-> key, dependencies |-> deps]

\* the keys of the lock document that hold no registry, and the keys of
\* the workspace object
SpecifiersId == <<"s", "p", "e", "c", "i", "f", "i", "e", "r", "s">>
WorkspaceId == <<"w", "o", "r", "k", "s", "p", "a", "c", "e">>
VersionId == <<"v", "e", "r", "s", "i", "o", "n">>
MembersKey == <<"m", "e", "m", "b", "e", "r", "s">>
PackageJsonKey == <<"p", "a", "c", "k", "a", "g", "e", "J", "s", "o", "n">>
DependenciesKey == <<"d", "e", "p", "e", "n", "d", "e", "n", "c", "i", "e", "s">>

\* the format version of the lock document (DenoLock.version), a string
LockVersion == <<"4">>

\* property names of the built-in objects
ConstructorKey == <<"c", "o", "n", "s", "t", "r", "u", "c", "t", "o", "r">>
ProtoKey == <<"_", "_", "p", "r", "o", "t", "o", "_", "_">>
NameKey == <<"n", "a", "m", "e">>
LengthKey == <<"l", "e", "n", "g", "t", "h">>
PrototypeKey == <<"p", "r", "o", "t", "o", "t", "y", "p", "e">>

\* the properties an object inherits from Object.prototype
InheritedKeys ==
    {
      <<"c", "o", "n", "s", "t", "r", "u", "c", "t", "o", "r">>,
      <<"t", "o", "S", "t", "r", "i", "n", "g">>,
      <<"t", "o", "L", "o", "c", "a", "l", "e", "S", "t", "r", "i", "n", "g">>,
      <<"v", "a", "l", "u", "e", "O", "f">>,
      <<"h", "a", "s", "O", "w", "n", "P", "r", "o", "p", "e", "r", "t", "y">>,
      <<"i", "s", "P", "r", "o", "t", "o", "t", "y", "p", "e", "O", "f">>,
      <<"p", "r", "o", "p", "e", "r", "t", "y", "I", "s", "E", "n", "u", "m", "e", "r", "a", "b", "l", "e">>,
      <<"_", "_", "p", "r", "o", "t", "o", "_", "_">>,
      <<"_", "_", "d", "e", "f", "i", "n", "e", "G", "e", "t", "t", "e", "r", "_", "_">>,
      <<"_", "_", "d", "e", "f", "i", "n", "e", "S", "e", "t", "t", "e", "r", "_", "_">>,
      <<"_", "_", "l", "o", "o", "k", "u", "p", "G", "e", "t", "t", "e", "r", "_", "_">>,
      <<"_", "_", "l", "o", "o", "k", "u", "p", "S", "e", "t", "t", "e", "r", "_", "_">> }

\* the methods of String.prototype that Object.prototype does not name
StringPrototypeNames ==
    {
      <<"a", "n", "c", "h", "o", "r">>,
      <<"a", "t">>,
      <<"b", "i", "g">>,
      <<"b", "l", "i", "n", "k">>,
      <<"b", "o", "l", "d">>,
      <<"c", "h", "a", "r", "A", "t">>,
      <<"c", "h", "a", "r", "C", "o", "d", "e", "A", "t">>,
      <<"c", "o", "d", "e", "P", "o", "i", "n", "t", "A", "t">>,
      <<"c", "o", "n", "c", "a", "t">>,
      <<"e", "n", "d", "s", "W", "i", "t", "h">>,
      <<"f", "i", "x", "e", "d">>,
      <<"f", "o", "n", "t", "c", "o", "l", "o", "r">>,
      <<"f", "o", "n", "t", "s", "i", "z", "e">>,
      <<"i", "n", "c", "l", "u", "d", "e", "s">>,
      <<"i", "n", "d", "e", "x", "O", "f">>,
      <<"i", "s", "W", "e", "l", "l", "F", "o", "r", "m", "e", "d">>,
      <<"i", "t", "a", "l", "i", "c", "s">>,
      <<"l", "a", "s", "t", "I", "n", "d", "e", "x", "O", "f">>,
      <<"l", "i", "n", "k">>,
      <<"l", "o", "c", "a", "l", "e", "C", "o", "m", "p", "a", "r", "e">>,
      <<"m", "a", "t", "c", "h">>,
      <<"m", "a", "t", "c", "h", "A", "l", "l">>,
      <<"n", "o", "r", "m", "a", "l", "i", "z", "e">>,
      <<"p", "a", "d", "E", "n", "d">>,
      <<"p", "a", "d", "S", "t", "a", "r", "t">>,
      <<"r", "e", "p", "e", "a", "t">>,
      <<"r", "e", "p", "l", "a", "c", "e">>,
      <<"r", "e", "p", "l", "a", "c", "e", "A", "l", "l">>,
      <<"s", "e", "a", "r", "c", "h">>,
      <<"s", "l", "i", "c", "e">>,
      <<"s", "m", "a", "l", "l">>,
      <<"s", "p", "l", "i", "t">>,
      <<"s", "t", "a", "r", "t", "s", "W", "i", "t", "h">>,
      <<"s", "t", "r", "i", "k", "e">>,
      <<"s", "u", "b">>,
      <<"s", "u", "b", "s", "t", "r">>,
      <<"s", "u", "b", "s", "t", "r", "i", "n", "g">>,
      <<"s", "u", "p">>,
      <<"t", "o", "L", "o", "c", "a", "l", "e", "L", "o", "w", "e", "r", "C", "a", "s", "e">>,
      <<"t", "o", "L", "o", "c", "a", "l", "e", "U", "p", "p", "e", "r", "C", "a", "s", "e">>,
      <<"t", "o", "L", "o", "w", "e", "r", "C", "a", "s", "e">>,
      <<"t", "o", "U", "p", "p", "e", "r", "C", "a", "s", "e">>,
      <<"t", "o", "W", "e", "l", "l", "F", "o", "r", "m", "e", "d">>,
      <<"t", "r", "i", "m">>,
      <<"t", "r", "i", "m", "E", "n", "d">>,
      <<"t", "r", "i", "m", "L", "e", "f", "t">>,
      <<"t", "r", "i", "m", "R", "i", "g", "h", "t">>,
      <<"t", "r", "i", "m", "S", "t", "a", "r", "t">> }

\* the methods of the constructor Object
ObjectStaticNames ==
    {
      <<"a", "s", "s", "i", "g", "n">>,
      <<"c", "r", "e", "a", "t", "e">>,
      <<"d", "e", "f", "i", "n", "e", "P", "r", "o", "p", "e", "r", "t", "i", "e", "s">>,
      <<"d", "e", "f", "i", "n", "e", "P", "r", "o", "p", "e", "r", "t", "y">>,
      <<"e", "n", "t", "r", "i", "e", "s">>,
      <<"f", "r", "e", "e", "z", "e">>,
      <<"f", "r", "o", "m", "E", "n", "t", "r", "i", "e", "s">>,
      <<"g", "e", "t", "O", "w", "n", "P", "r", "o", "p", "e", "r", "t", "y", "D", "e", "s", "c", "r", "i", "p", "t", "o", "r">>,
      <<"g", "e", "t", "O", "w", "n", "P", "r", "o", "p", "e", "r", "t", "y", "D", "e", "s", "c", "r", "i", "p", "t", "o", "r", "s">>,
      <<"g", "e", "t", "O", "w", "n", "P", "r", "o", "p", "e", "r", "t", "y", "N", "a", "m", "e", "s">>,
      <<"g", "e", "t", "O", "w", "n", "P", "r", "o", "p", "e", "r", "t", "y", "S", "y", "m", "b", "o", "l", "s">>,
      <<"g", "e", "t", "P", "r", "o", "t", "o", "t", "y", "p", "e", "O", "f">>,
      <<"h", "a", "s", "O", "w", "n">>,
      <<"i", "s">>,
      <<"i", "s", "E", "x", "t", "e", "n", "s", "i", "b", "l", "e">>,
      <<"i", "s", "F", "r", "o", "z", "e", "n">>,
      <<"i", "s", "S", "e", "a", "l", "e", "d">>,
      <<"k", "e", "y", "s">>,
      <<"p", "r", "e", "v", "e", "n", "t", "E", "x", "t", "e", "n", "s", "i", "o", "n", "s">>,
      <<"s", "e", "a", "l">>,
      <<"s", "e", "t", "P", "r", "o", "t", "o", "t", "y", "p", "e", "O", "f">>,
      <<"v", "a", "l", "u", "e", "s">> }

\* the methods of Function.prototype that Object.prototype does not name,
\* and its accessors "caller" and "arguments", whose getter throws a
\* TypeError on a built-in function
FunctionPrototypeNames ==
    {
      <<"a", "p", "p", "l", "y">>,
      <<"b", "i", "n", "d">>,
      <<"c", "a", "l", "l">> }
RestrictedNames ==
    {
      <<"c", "a", "l", "l", "e", "r">>,
      <<"a", "r", "g", "u", "m", "e", "n", "t", "s">> }

\* the name of the function Object.prototype holds under a key: the key,
\* and Object for the constructor
FunctionName(key) == IF key = ConstructorKey THEN <<"O", "b", "j", "e", "c", "t">> ELSE key

\* the length of that function: the number of its parameters
FunctionLength(key) ==
    CASE key \in {<<"t", "o", "S", "t", "r", "i", "n", "g">>, <<"t", "o", "L", "o", "c", "a", "l", "e", "S", "t", "r", "i", "n", "g">>, <<"v", "a", "l", "u", "e", "O", "f">>} -> 0
      [] key \in {<<"_", "_", "d", "e", "f", "i", "n", "e", "G", "e", "t", "t", "e", "r", "_", "_">>, <<"_", "_", "d", "e", "f", "i", "n", "e", "S", "e", "t", "t", "e", "r", "_", "_">>} -> 2
      [] OTHER -> 1

\* `${f}` in a template string, f a built-in function
FunctionText(name) ==
    <<"f", "u", "n", "c", "t", "i", "o", "n", " ">> \o name \o
    <<"(", ")", " ", "{", " ", "[", "n", "a", "t", "i", "v", "e", " ", "c", "o", "d", "e", "]", " ", "}">>

\* `${Object.prototype}` in a template string
ObjectText == <<"[", "o", "b", "j", "e", "c", "t", " ", "O", "b", "j", "e", "c", "t", "]">>

\* String(n), n a natural number
Digits == <<"0", "1", "2", "3", "4", "5", "6", "7", "8", "9">>
RECURSIVE DecimalOf(_)
DecimalOf(n) ==
    IF n < 10 THEN <<Digits[n + 1]>>
    ELSE DecimalOf(n \div 10) \o <<Digits[(n % 10) + 1]>>

\* a value of the lock document as lines 242 to 272 read it.  present:
\* `registryId in denoLock`; entries: the keys Object.keys gives, in
\* order, each with the dependencies of its value; falsy: those of them
\* whose value is falsy; opaque: those whose value has a truthy
\* `dependencies` that is no iterable; hidden: the other properties the
\* value answers with something truthy, which has no `dependencies`;
\* throwing: the properties whose read throws
View(entries, hidden, falsy, opaque, throwing) ==
    [present |-> TRUE, entries |-> entries, hidden |-> hidden, falsy |-> falsy,
     opaque |-> opaque, throwing |-> throwing]
NoView ==
    [present |-> FALSE, entries |-> <<>>, hidden |-> {}, falsy |-> {}, opaque |-> {},
     throwing |-> {}]

\* a registry section read so: an object of JSON.parse, which inherits
\* from Object.prototype
ObjectView(section) ==
    IF section.present THEN View(section.entries, InheritedKeys, {}, {}, {}) ELSE NoView

\* a string read so: its keys are the places of its characters, and it
\* answers "length" (falsy when 0) and the names of String.prototype
StringView(string) ==
    View([i \in 1..Len(string) |-> Entry(DecimalOf(i - 1), <<>>)],
         InheritedKeys \cup StringPrototypeNames
            \cup (IF string = <<>> THEN {} ELSE {LengthKey}),
         {}, {}, {})

\* a method of Object.prototype, or the constructor Object, read so: no
\* enumerable key; name, length (falsy when 0), the names of
\* Function.prototype, and for Object its prototype and its methods
FunctionView(key) ==
    View(<<>>,
         {NameKey} \cup (IF FunctionLength(key) = 0 THEN {} ELSE {LengthKey})
            \cup (IF key = ConstructorKey THEN {PrototypeKey} \cup ObjectStaticNames ELSE {})
            \cup FunctionPrototypeNames \cup InheritedKeys,
         {}, {}, RestrictedNames)

\* Object.prototype read so: no enumerable key; its __proto__ is null
PrototypeView == View(<<>>, InheritedKeys \ {ProtoKey}, {}, {}, {})

\* denoLock.specifiers read so: a key per range, its value the exact
\* version, a string, falsy when empty
SpecifiersSection(denoLock) ==
    View([i \in 1..Len(denoLock.specifiers) |-> Entry(denoLock.specifiers[i][1], <<>>)],
         InheritedKeys,
         {denoLock.specifiers[i][1] : i \in {j \in 1..Len(denoLock.specifiers) :
                                                denoLock.specifiers[j][2] = <<>>}},
         {}, {})

\* denoLock.workspace read so: the key "members" holds the members map,
\* whose `dependencies` is the member of the path "dependencies", an
\* object, when there is one; the key "packageJson" holds the root member,
\* whose dependencies are its ranges
WorkspaceSection(denoLock) ==
    IF denoLock.workspace.kind = "members"
    THEN View(<<Entry(MembersKey, <<>>)>>, InheritedKeys, {},
              IF \E i \in 1..Len(denoLock.workspace.members) :
                    denoLock.workspace.members[i].path = DependenciesKey
              THEN {MembersKey} ELSE {},
              {})
    ELSE IF denoLock.workspace.kind = "root"
    THEN View(<<Entry(PackageJsonKey, denoLock.workspace.members[1].dependencies)>>,
              InheritedKeys, {}, {}, {})
    ELSE NoView

\* denoLock[registryId]: the property of the lock document under that
\* name, a registry or not, its own or inherited from Object.prototype
Registry(denoLock, registryId) ==
    IF registryId = NpmId THEN ObjectView(denoLock.npm)
    ELSE IF registryId = JsrId THEN ObjectView(denoLock.jsr)
    ELSE IF registryId = SpecifiersId THEN SpecifiersSection(denoLock)
    ELSE IF registryId = WorkspaceId THEN WorkspaceSection(denoLock)
    ELSE IF registryId = VersionId THEN StringView(denoLock.version)
    ELSE IF registryId = ProtoKey THEN PrototypeView
    ELSE IF registryId \in InheritedKeys THEN FunctionView(registryId)
    ELSE NoView

\* entries[key]: the position of the entry, 0 for undefined
EntryAt(entries, key) ==
    LET at == {i \in 1..Len(entries) : entries[i].key = key}
    IN IF at = {} THEN 0 ELSE MinOf(at)

\* denoLock[registryId][packageAtVersion] of line 262: the entry of the
\* key, another truthy value, nothing truthy, or a throw of the read
PackageMeta(section, key) ==
    IF key \in section.throwing THEN [kind |-> "throws", at |-> 0]
    ELSE IF EntryAt(section.entries, key) # 0
    THEN IF key \in section.falsy THEN [kind |-> "none", at |-> 0]
         ELSE [kind |-> "entry", at |-> EntryAt(section.entries, key)]
    ELSE IF key \in section.hidden THEN [kind |-> "value", at |-> 0]
    ELSE [kind |-> "none", at |-> 0]

\* denoLock.specifiers[dependency], as the template string prints it: the
\* version of the range, or what specifiers inherits under that name, or
\* undefined
Specifier(denoLock, dependency) ==
    LET at == {i \in 1..Len(denoLock.specifiers) : denoLock.specifiers[i][1] = dependency}
    IN IF at # {} THEN denoLock.specifiers[MinOf(at)][2]
       ELSE IF dependency = ProtoKey THEN ObjectText
       ELSE IF dependency \in InheritedKeys THEN FunctionText(FunctionName(dependency))
       ELSE UndefinedText

\* iterDenoWorkspaceMembers: the members map, or the single root workspace
\* under the path ".", or nothing
iterDenoWorkspaceMembers(denoLock) ==
    IF denoLock.workspace.kind = "members" THEN denoLock.workspace.members
    ELSE IF denoLock.workspace.kind = "root"
    THEN <<[path |-> <<".">>, dependencies |-> denoLock.workspace.members[1].dependencies]>>
    ELSE <<>>

\* denoStoreId
denoStoreId(packageAtVersion) == ReplaceFirst(packageAtVersion, "/", "+")

\* path.dirname: the parent, the filesystem root (the empty sequence of
\* segments) being its own parent; a trailing separator is ignored
Dirname(dir) ==
    IF Trimmed(dir) = <<>> THEN <<>> ELSE SubSeq(Trimmed(dir), 1, Len(Trimmed(dir)) - 1)

\* what findDenoLock returns: null, or the lock file of a directory
NoLock == [found |-> FALSE, dir |-> <<>>]
LockIn(dir) == [found |-> TRUE, dir |-> dir]

\* findDenoLock on directories that nothing writes to meanwhile: the loop
\* from cwd upward while dir differs from its parent
RECURSIVE findDenoLock(_, _)
findDenoLock(dir, lockDirs) ==
    IF dir = Dirname(dir) THEN NoLock
    ELSE IF Trimmed(dir) \in lockDirs THEN LockIn(Trimmed(dir))
    ELSE findDenoLock(Dirname(dir), lockDirs)

\* one turn of findDenoLock between two waits: the loop's test where the
\* call starts at the root, else the answer of the stat of dir's
\* deno.lock, the step to the parent and the loop's test
findDenoLockTurn(dir, lockDirs) ==
    IF dir = Dirname(dir) THEN [state |-> "null", dir |-> dir]
    ELSE IF Trimmed(dir) \in lockDirs THEN [state |-> "found", dir |-> Trimmed(dir)]
    ELSE IF Dirname(dir) = Dirname(Dirname(dir)) THEN [state |-> "null", dir |-> Dirname(dir)]
    ELSE [state |-> "next", dir |-> Dirname(dir)]

\* detectDeno on directories that nothing writes to meanwhile
detectDeno(cwd, lockDirs) == findDenoLock(cwd, lockDirs).found

\* the disk: the directories that hold a deno.lock, the symbolic links
\* (the path of the link and the real path of its target), the paths that
\* do not exist
Disk(lockDirs, links, missing) == [lockDirs |-> lockDirs, links |-> links, missing |-> missing]
Link(from, to) == [from |-> from, to |-> to]

\* the directory of the lock file found: path.join(denoLockPath, '..')
LockDir == dLockDir

\* what fs.realpath(p) calls back with: the path is walked from the root,
\* a prefix that does not exist gives ENOENT, a prefix that is a symbolic
\* link is replaced by its target
RECURSIVE RealPath(_, _)
RealPath(disk, p) ==
    LET stops == {k \in 1..Len(p) :
                    \/ SubSeq(p, 1, k) \in disk.missing
                    \/ \E l \in disk.links : l.from = SubSeq(p, 1, k)}
    IN IF stops = {} THEN Return(p)
       ELSE IF SubSeq(p, 1, MinOf(stops)) \in disk.missing THEN Throw("ENOENT")
       ELSE RealPath(disk,
                (CHOOSE l \in disk.links : l.from = SubSeq(p, 1, MinOf(stops))).to
                \o SubSeq(p, MinOf(stops) + 1, Len(p)))

\* storePath of denoPath: the store directory of a package beside the lock
\* file, the argument of realpath
storePath(denoLockDir, packageAtVersion) ==
    PathJoin(PathJoin(Append(Append(denoLockDir, NodeModules), <<".deno">>),
                      denoStoreId(packageAtVersion)),
             NodeModules)

\* denoPath: what its promise settles with
denoPath(disk, denoLockDir, packageAtVersion) ==
    RealPath(disk, storePath(denoLockDir, packageAtVersion))

----------------------------------------------------------------------------
(* deno.ts: selectDenoDependencies. *)

WorkspacePrefix == <<"w", "o", "r", "k", "s", "p", "a", "c", "e", ":">>

\* the names of packageJson.dependencies whose version starts with
\* 'workspace:'
RECURSIVE workspaceDependencies(_)
workspaceDependencies(dependencies) ==
    IF dependencies = <<>> THEN <<>>
    ELSE (IF StartsWith(Head(dependencies)[2], WorkspacePrefix)
          THEN <<Head(dependencies)[1]>> ELSE <<>>)
         \o workspaceDependencies(Tail(dependencies))

\* path.join(denoLockPath, '..', localPath, 'package.json')
PackageJsonPath(denoLockDir, localPath) ==
    PathJoin(PathJoin(denoLockDir, localPath),
             <<"p", "a", "c", "k", "a", "g", "e", ".", "j", "s", "o", "n">>)

\* fs: the package.json files on disk, each under the local path it was
\* written at; the one at the member's packageJsonPath, 0 when there is
\* none
PackageJsonAt(fs, denoLockDir, localPath) ==
    LET at == {i \in 1..Len(fs) : PackageJsonPath(denoLockDir, fs[i].path)
                                     = PackageJsonPath(denoLockDir, localPath)}
    IN IF at = {} THEN 0 ELSE MinOf(at)

\* workspacesWithLocalDeps: one entry per workspace member, keyed on its
\* local path, or the throw of the first member without package.json or
\* without name
RECURSIVE BuildCatalog(_, _, _, _)
BuildCatalog(denoLockDir, members, fs, acc) ==
    IF members = <<>> THEN Return(acc)
    ELSE LET member == Head(members)
             at == PackageJsonAt(fs, denoLockDir, member.path)
         IN IF at = 0 THEN Throw("NoPackageJson")
            ELSE IF fs[at].name = <<>> THEN Throw("NoPackageName")
            ELSE BuildCatalog(denoLockDir, Tail(members), fs,
                    Append(acc, [path |-> member.path,
                                 name |-> fs[at].name,
                                 dependencies |-> member.dependencies,
                                 workspaceDependencies |->
                                     workspaceDependencies(fs[at].dependencies)]))

\* workspacesWithLocalDeps[key]: the position of the member, 0 for
\* undefined, -1 for what the object inherits from Object.prototype under
\* that name, a value without packageJson
CatalogAt(catalog, key) ==
    LET at == {i \in 1..Len(catalog) : catalog[i].path = key}
    IN IF at # {} THEN MinOf(at)
       ELSE IF key \in InheritedKeys THEN -1
       ELSE 0

\* matchedLocalWorkspaces: the members whose name is in packagedDependencies
RECURSIVE matchedLocalWorkspaces(_, _, _)
matchedLocalWorkspaces(catalog, names, i) ==
    IF i > Len(catalog) THEN <<>>
    ELSE (IF ArrayIncludes(names, catalog[i].name)
          THEN <<[path |-> catalog[i].path, member |-> i]>> ELSE <<>>)
         \o matchedLocalWorkspaces(catalog, names, i + 1)

\* the package name the seeding loop reads off a registry key
SeedPackageName(specifier) == Slice(specifier, 0, LastIndexOf(specifier, "@"))

\* the seeding loop over one registry's keys: registryDependencies after
\* it, or the throw on a key without "@" with what was added before it
RECURSIVE SeedKeys(_, _, _, _)
SeedKeys(registry, entries, names, acc) ==
    IF entries = <<>> THEN Return(acc)
    ELSE LET specifier == Head(entries).key
         IN IF LastIndexOf(specifier, "@") = -1 THEN ThrowAfter("InvalidSpecifier", acc)
            ELSE SeedKeys(registry, Tail(entries), names,
                    IF ArrayIncludes(names, SeedPackageName(specifier))
                    THEN SetAdd(acc, registry \o <<":">> \o specifier)
                    ELSE acc)

\* the seeding loop over KNOWN_REGISTRIES
RECURSIVE SeedRegistries(_, _, _, _)
SeedRegistries(denoLock, registries, names, acc) ==
    IF registries = <<>> THEN Return(acc)
    ELSE LET section == Registry(denoLock, Head(registries))
             r == IF section.present
                  THEN SeedKeys(Head(registries), section.entries, names, acc)
                  ELSE Return(acc)
         IN IF ~r.ok THEN r
            ELSE SeedRegistries(denoLock, Tail(registries), names, r.val)

\* the frontier entries a popped member pushes: one per workspace
\* dependency, looked up in workspacesWithLocalDeps under the dependency's
\* name
PushedWorkspaces(catalog, names) ==
    [i \in 1..Len(names) |-> [path |-> names[i], member |-> CatalogAt(catalog, names[i])]]

\* the registry dependencies of a popped member, each translated through
\* specifiers and added to registryDependencies: the set after the loop,
\* or the throw of a dependency that does not split with what was added
\* before it
RECURSIVE AddMemberDependencies(_, _, _)
AddMemberDependencies(denoLock, dependencies, acc) ==
    IF dependencies = <<>> THEN Return(acc)
    ELSE LET dependency == Head(dependencies)
             versionString == Specifier(denoLock, dependency)
             r == splitPackageAtVersion(dependency)
         IN IF ~r.ok THEN ThrowAfter(r.err, acc)
            ELSE AddMemberDependencies(denoLock, Tail(dependencies),
                    SetAdd(acc, r.val.name \o <<"@">> \o versionString))

\* the key a reference without version resolves to: the first key of the
\* registry that starts with the name and "@"; the name when there is none
FirstKey(entries, packageName) ==
    LET at == {i \in 1..Len(entries) : StartsWith(entries[i].key, packageName \o <<"@">>)}
    IN IF at = {} THEN packageName ELSE entries[MinOf(at)].key

\* the frontier token of one dependency string of an entry of registryId
DependencyToken(registryId, dependency) ==
    LET colonPoint == IndexOf(dependency, ":")
        atPoint == IndexOfFrom(dependency, "@", 1)
        target == IF atPoint # -1 /\ colonPoint # -1 /\ atPoint < colonPoint
                  THEN SliceFrom(dependency, atPoint + 1)
                  ELSE dependency
    IN IF Includes(target, ":") THEN target ELSE registryId \o <<":">> \o target

\* the loop over packageMeta.dependencies: a token not yet in
\* registryDependencies is pushed and added
RECURSIVE EnqueueDependencies(_, _, _, _)
EnqueueDependenciesUnvisited(registryId, dependencies, frontier, registryDependencies) ==
    [frontier |-> frontier \o [i \in 1..Len(dependencies) |->
                                  DependencyToken(registryId, dependencies[i])],
     registryDependencies |-> registryDependencies]
EnqueueDependencies(registryId, dependencies, frontier, registryDependencies) ==
    IF dependencies = <<>>
    THEN [frontier |-> frontier, registryDependencies |-> registryDependencies]
    ELSE LET dependencyString == DependencyToken(registryId, Head(dependencies))
         IN IF ArrayIncludes(registryDependencies, dependencyString)
            THEN EnqueueDependencies(registryId, Tail(dependencies), frontier,
                                     registryDependencies)
            ELSE EnqueueDependencies(registryId, Tail(dependencies),
                                     Append(frontier, dependencyString),
                                     Append(registryDependencies, dependencyString))

\* the store paths realpath is started on for the packages of keys[i..],
\* each key expanded by splitMultiPackageAtVersion, or the throw of the
\* first key that fails
RECURSIVE StorePaths(_, _)
StorePaths(keys, i) ==
    IF i > Len(keys) THEN Return(<<>>)
    ELSE LET r == splitMultiPackageAtVersion(keys[i])
             rest == StorePaths(keys, i + 1)
         IN IF ~r.ok THEN r
            ELSE IF ~rest.ok THEN rest
            ELSE Return([k \in 1..Len(r.val) |-> storePath(LockDir, r.val[k])] \o rest.val)

\* the registry drain's body from the store paths on (lines 252-291):
\* paths is the split of the resolved key, meta what line 262 reads under
\* it.  The store paths are pushed before the registry and the key are
\* looked up, so a throw of lines 260 to 272 leaves them collected.
RegistryEntry(registryId, section, packageAtVersion, paths, meta, frontier, registryDependencies, collected) ==
    LET entry == [registryId |-> registryId, key |-> packageAtVersion]
        pushed == collected \o paths.val
    IN IF ~paths.ok
       THEN [err |-> paths.err, entry |-> entry, collected |-> collected]
       ELSE IF ~section.present
       THEN [err |-> "CouldNotFindRegistry", entry |-> entry, collected |-> pushed]
       ELSE IF meta.kind = "throws"
       THEN [err |-> "TypeError", entry |-> entry, collected |-> pushed]
       ELSE IF meta.kind = "none"
       THEN [err |-> "CouldNotFindPackage", entry |-> entry, collected |-> pushed]
       ELSE IF meta.kind = "entry" /\ packageAtVersion \in section.opaque
       THEN [err |-> "TypeError", entry |-> entry, collected |-> pushed]
       ELSE [err |-> "",
             entry |-> entry,
             queue |-> EnqueueDependencies(registryId,
                          IF meta.kind = "entry"
                          THEN section.entries[meta.at].dependencies ELSE <<>>,
                          frontier, registryDependencies),
             collected |-> pushed]

\* the body once the key is resolved (line 249)
RegistryResolved(registryId, section, packageAtVersion, frontier, registryDependencies, collected) ==
    RegistryEntry(registryId, section, packageAtVersion,
                  StorePaths(<<packageAtVersion>>, 1),
                  PackageMeta(section, packageAtVersion),
                  frontier, registryDependencies, collected)

\* the body from the name/version split on (lines 239-249): r is
\* splitPackageAtVersion of the token's package part
RegistryInfer(registryId, section, packageAtVersion, r, frontier, registryDependencies, collected) ==
    IF ~r.ok
    THEN [err |-> r.err, entry |-> [registryId |-> <<>>, key |-> <<>>],
          collected |-> collected]
    ELSE IF r.val.hasVersion
    THEN RegistryResolved(registryId, section, packageAtVersion,
                          frontier, registryDependencies, collected)
    ELSE IF ~section.present
    THEN [err |-> "TypeError", entry |-> [registryId |-> <<>>, key |-> <<>>],
          collected |-> collected]
    ELSE RegistryResolved(registryId, section, FirstKey(section.entries, r.val.name),
                          frontier, registryDependencies, collected)

\* the body from the registry split on (lines 233-236): parts is
\* versionString.split(':', 2)
RegistryParts(denoLock, parts, frontier, registryDependencies, collected) ==
    IF parts[1] = <<>> \/ Len(parts) < 2 \/ parts[2] = <<>>
    THEN [err |-> "InvalidVersionString", entry |-> [registryId |-> <<>>, key |-> <<>>],
          collected |-> collected]
    ELSE RegistryInfer(parts[1], Registry(denoLock, parts[1]), parts[2],
                       splitPackageAtVersion(parts[2]),
                       frontier, registryDependencies, collected)

\* one iteration of the registry drain on the popped token: the outcome
\* of the body, with the entry it resolved
RegistryIteration(denoLock, versionString, frontier, registryDependencies, collected) ==
    RegistryParts(denoLock, SplitLimit2(versionString, ":"),
                  frontier, registryDependencies, collected)

\* the registry sections getDenoDependencies enumerates without allow-list
AllKeys(denoLock) == [i \in 1..Len(denoLock.npm.entries) |-> denoLock.npm.entries[i].key]

\* what Promise.all has of the places of collectedDependencyPaths when it
\* is called: a string is a value, the promise of a realpath is pending
Awaited(collected, promised) ==
    [i \in 1..Len(collected) |->
        IF i \in promised THEN [settled |-> FALSE, value |-> <<>>]
        ELSE [settled |-> TRUE, value |-> collected[i]]]

\* the array Promise.all fulfils with
Fulfilled(values) == [i \in 1..Len(values) |-> values[i].value]

\* absPathResults with the root pushed when missing, through new Set
Selection(cwd, absPathResults) ==
    ArrayFromSet(IF ArrayIncludes(absPathResults, cwd) THEN absPathResults
                 ELSE Append(absPathResults, cwd), <<>>)

----------------------------------------------------------------------------
(* The lock documents, package descriptors and allow-lists the lockfile    *)
(* resolver is run on.                                                     *)

\* most entries of the npm section
MaxEntries == 3

Str_a == <<"a">>
Str_b == <<"b">>
Str_f == <<"f">>
Str_j == <<"j">>
Str_k == <<"k">>
Str_m == <<"m">>
Str_n == <<"n">>
Str_r == <<"r">>
Str_sc == <<"@", "s", "/", "c">>
Str_pm == <<"p", "m">>
Str_pn == <<"p", "n">>

Key_a1 == <<"a", "@", "1">>
Key_b1 == <<"b", "@", "1">>
Key_b2 == <<"b", "@", "2">>
Key_fp == <<"f", "@", "1", "_", "p", "@", "2">>
Key_sc1 == <<"@", "s", "/", "c", "@", "1">>
Key_j1 == <<"j", "@", "1">>

\* dependency strings: a bare name, a bare name@version, a bare scoped
\* name@version, registry-prefixed references, and rebinds alias@registry:...
Dep_b == <<"b">>
Dep_sc1 == Key_sc1
Dep_npm_sc1 == NpmId \o <<":">> \o Key_sc1
Dep_jsr_j1 == JsrId \o <<":">> \o Key_j1
Dep_x_npm_a1 == <<"x", "@">> \o NpmId \o <<":">> \o Key_a1
Dep_y_npm_fp == <<"y", "@">> \o NpmId \o <<":">> \o Key_fp
Dep_sy_npm_b2 == <<"@", "s", "/", "y", "@">> \o NpmId \o <<":">> \o Key_b2
\* rebinds with an empty alias and with an alias that holds an "@"
Dep_at_npm_b1 == <<"@">> \o NpmId \o <<":">> \o Key_b1
Dep_x_y_npm_a1 == <<"x", "@", "y", "@">> \o NpmId \o <<":">> \o Key_a1
\* references into properties of the lock document that are no registry:
\* the workspace's members, the first character of the format version,
\* the name of the constructor the document inherits; and a bare name
\* that every object inherits
Dep_workspace_members == WorkspaceId \o <<":">> \o MembersKey
Dep_version_0 == VersionId \o <<":", "0">>
Dep_constructor_name == ConstructorKey \o <<":">> \o NameKey
Dep_constructor == ConstructorKey

NpmPool ==
    { Entry(Key_a1, <<Dep_y_npm_fp, Dep_b>>),
      Entry(Key_b2, <<Dep_sc1>>),
      Entry(Key_b1, <<Dep_jsr_j1>>),
      Entry(Key_fp, <<Dep_x_npm_a1>>),
      Entry(Key_sc1, <<Dep_sy_npm_b2, Dep_npm_sc1>>) }

\* the npm section: absent, or up to MaxEntries entries in any order
NpmSections ==
    {Absent} \cup
    UNION { {Present(s) : s \in {t \in [1..k -> NpmPool] :
                                    \A i, j \in 1..k : i # j => t[i] # t[j]}} :
            k \in 0..MaxEntries }

\* a jsr section whose entry rebinds with an empty alias and with an alias
\* that holds an "@"
OddRebinds == Present(<<Entry(Key_j1, <<Dep_at_npm_b1, Dep_x_y_npm_a1>>)>>)

JsrSections ==
    { Absent,
      Present(<<Entry(Key_j1, <<Dep_workspace_members, Dep_version_0,
                                Dep_constructor_name, Dep_constructor>>)>>),
      OddRebinds }

\* range strings of members' dependencies, and `specifiers`
Range_a == NpmId \o <<":", "a", "@", "^", "1">>
Range_b == NpmId \o <<":", "b", "@", "^", "2">>
Specifiers == << <<Range_a, <<"1">>>>, <<Range_b, <<"2">>>> >>
\* `specifiers` complete, and without the range of b
SpecifierMaps == {Specifiers, << <<Range_a, <<"1">>>> >>}

LockMember(path, dependencies) == [path |-> path, dependencies |-> dependencies]
PackageJson(path, name, dependencies) ==
    [path |-> path, name |-> name, dependencies |-> dependencies]
WorkspaceStar == WorkspacePrefix \o <<"*">>

\* a root workspace named r that depends on nothing, and a single member
\* named r that depends on nothing, its path written ./
RootAlone ==
    [workspace |-> [kind |-> "root", members |-> <<LockMember(<<".">>, <<>>)>>],
     fs |-> <<PackageJson(<<".">>, Str_r, <<>>)>>]
DotSlashMember ==
    [workspace |-> [kind |-> "members", members |-> <<LockMember(<<".", "/">>, <<>>)>>],
     fs |-> <<PackageJson(<<".", "/">>, Str_r, <<>>)>>]

\* the workspace of the lock document with the package.json files on disk
WorkspaceLayouts ==
    { RootAlone,
      DotSlashMember,
      \* no workspace
      [workspace |-> [kind |-> "none", members |-> <<>>], fs |-> <<>>],
      \* a single root workspace named r
      [workspace |-> [kind |-> "root", members |-> <<LockMember(<<".">>, <<Range_a>>)>>],
       fs |-> <<PackageJson(<<".">>, Str_r, << <<Str_a, <<"^", "1">>>> >>)>>],
      \* m in pm depends on n in pn
      [workspace |-> [kind |-> "members",
                      members |-> <<LockMember(Str_pm, <<>>), LockMember(Str_pn, <<Range_b>>)>>],
       fs |-> <<PackageJson(Str_pm, Str_m, << <<Str_n, WorkspaceStar>> >>),
                PackageJson(Str_pn, Str_n, << <<Str_b, <<"^", "2">>>> >>)>>],
      \* m depends on n, each in the directory of its name
      [workspace |-> [kind |-> "members",
                      members |-> <<LockMember(Str_m, <<>>), LockMember(Str_n, <<Range_b>>)>>],
       fs |-> <<PackageJson(Str_m, Str_m, << <<Str_n, WorkspaceStar>> >>),
                PackageJson(Str_n, Str_n, << <<Str_b, <<"^", "2">>>> >>)>>],
      \* m in pm depends on n in pn, and the directory n holds k
      [workspace |-> [kind |-> "members",
                      members |-> <<LockMember(Str_pm, <<>>), LockMember(Str_n, <<>>),
                                    LockMember(Str_pn, <<>>)>>],
       fs |-> <<PackageJson(Str_pm, Str_m, << <<Str_n, WorkspaceStar>> >>),
                PackageJson(Str_n, Str_k, <<>>),
                PackageJson(Str_pn, Str_n, <<>>)>>],
      \* m and n, each in the directory of its name, depend on each other
      [workspace |-> [kind |-> "members",
                      members |-> <<LockMember(Str_m, <<>>), LockMember(Str_n, <<>>)>>],
       fs |-> <<PackageJson(Str_m, Str_m, << <<Str_n, WorkspaceStar>> >>),
                PackageJson(Str_n, Str_n, << <<Str_m, WorkspaceStar>> >>)>>] }

DenoAllowLists ==
    { NoAllowList,
      AllowList(<<>>),
      AllowList(<<Str_a>>),
      AllowList(<<Str_b>>),
      AllowList(<<Str_f, Str_sc>>),
      AllowList(<<Str_j>>),
      AllowList(<<Str_m>>),
      AllowList(<<Str_r, Str_a>>) }

\* the project directory and the disk the resolver is run on
Place(cwd, disk) == [cwd |-> cwd, disk |-> disk]
UpDir == << <<"up">> >>
\* the lock file beside an installed store, nothing linked
PlainPlace == Place(Cwd, Disk({Cwd}, {}, {}))
DenoPlaces ==
    { PlainPlace,
      \* the lock file and the store in the parent of the project directory
      Place(UpDir \o Cwd, Disk({UpDir}, {}, {})),
      \* the project directory is given with a trailing separator
      Place(Append(Cwd, <<>>), Disk({Cwd}, {}, {})),
      \* a lock file in the filesystem root only
      Place(Cwd, Disk({<<>>}, {}, {})),
      \* the store directory of a@1 is a symbolic link
      Place(Cwd, Disk({Cwd}, {Link(storePath(Cwd, Key_a1), << <<"elsewhere">>, <<"a">> >>)}, {})),
      \* the project directory is a symbolic link
      Place(Cwd, Disk({Cwd}, {Link(Cwd, << <<"real">> >>)}, {})),
      \* a@1 is not installed
      Place(Cwd, Disk({Cwd}, {}, {PathJoin(Append(Append(Cwd, NodeModules), <<".deno">>), Key_a1)})) }

NoEntry == [registryId |-> <<>>, key |-> <<>>]

DenoIdle ==
    /\ dLock = [version |-> <<>>, specifiers |-> <<>>,
                workspace |-> [kind |-> "none", members |-> <<>>],
                npm |-> Absent, jsr |-> Absent]
    /\ dFs = <<>>
    /\ dAllow = NoAllowList
    /\ dCatalog = <<>>
    /\ dWsFrontier = <<>>
    /\ dRegDeps = <<>>
    /\ dFrontier = <<>>
    /\ dCollected = <<>>
    /\ dI = 0
    /\ dToken = <<>>
    /\ dEntry = NoEntry
    /\ dResult = <<>>
    /\ dPc = "idle"
    /\ dErr = ""
    /\ dCwd = <<>>
    /\ dDisk = Disk({}, {}, {})
    /\ dDir = <<>>
    /\ dLockDir = <<>>
    /\ dPromised = {}
    /\ dValues = <<>>
    /\ dCalled = {}
    /\ dUnhandled = {}

\* getDenoDependencies(cwd, packagedDependencies) is called.  Every
\* document is run in the plain place; the other places are run with the
\* documents of fewer than MaxEntries npm entries, no jsr section and the
\* complete specifiers.  The workspaces that depend on nothing and the jsr
\* section of odd rebinds are run with at most one npm entry.
DenoInit ==
    /\ \E layout \in WorkspaceLayouts, npm \in NpmSections, jsr \in JsrSections,
          specifiers \in SpecifierMaps, place \in DenoPlaces :
          /\ \/ place = PlainPlace
             \/ /\ Len(npm.entries) < MaxEntries
                /\ jsr = Absent
                /\ specifiers = Specifiers
          /\ (layout \in {RootAlone, DotSlashMember} \/ jsr = OddRebinds) =>
                Len(npm.entries) <= 1
          /\ dLock = [version |-> LockVersion, specifiers |-> specifiers,
                      workspace |-> layout.workspace, npm |-> npm, jsr |-> jsr]
          /\ dFs = layout.fs
          /\ dCwd = place.cwd
          /\ dDisk = place.disk
          /\ dDir = place.cwd
    /\ dAllow \in DenoAllowLists
    /\ dCatalog = <<>>
    /\ dWsFrontier = <<>>
    /\ dRegDeps = <<>>
    /\ dFrontier = <<>>
    /\ dCollected = <<>>
    /\ dI = 0
    /\ dToken = <<>>
    /\ dEntry = NoEntry
    /\ dResult = <<>>
    /\ dPc = "locate"
    /\ dErr = ""
    /\ dLockDir = <<>>
    /\ dPromised = {}
    /\ dValues = <<>>
    /\ dCalled = {}
    /\ dUnhandled = {}

\* a throw anywhere in the call: the promise rejects
DenoFail(e) ==
    /\ dPc' = "failed"
    /\ dErr' = e

\* the project directory and the disk, which the call leaves alone
denoPlace == <<dCwd, dDisk>>
\* what only the callbacks of realpath write
denoCallbacks == <<dCalled, dUnhandled>>
\* what only the waits of the call write
denoWaits == <<dDir, dLockDir, dPromised, dValues, denoCallbacks>>

\* getDenoDependencies awaits findDenoLock(cwd): one turn of its loop, and
\* the throw when it returns null
DenoStat ==
    /\ dPc = "locate"
    /\ LET turn == findDenoLockTurn(dDir, dDisk.lockDirs)
       IN CASE turn.state = "found" ->
                 /\ dLockDir' = turn.dir
                 /\ dPc' = "read"
                 /\ UNCHANGED <<dDir, dErr>>
            [] turn.state = "next" ->
                 /\ dDir' = turn.dir
                 /\ UNCHANGED <<dLockDir, dPc, dErr>>
            [] OTHER ->
                 /\ DenoFail("CouldNotFindDenoLock")
                 /\ dDir' = turn.dir
                 /\ UNCHANGED dLockDir
    /\ UNCHANGED <<dLock, dFs, dAllow, dCatalog, dWsFrontier, dRegDeps, dFrontier,
                   dCollected, dI, dToken, dEntry, dResult, denoPlace, dPromised,
                   dValues, denoCallbacks, notDeno>>

\* the lock file is read and parsed
DenoRead ==
    /\ dPc = "read"
    /\ dPc' = "start"
    /\ UNCHANGED <<dLock, dFs, dAllow, dCatalog, dWsFrontier, dRegDeps, dFrontier,
                   dCollected, dI, dToken, dEntry, dResult, dErr, denoPlace,
                   denoWaits, notDeno>>

\* getDenoDependencies without allow-list: a realpath is started for every
\* package of every key of denoLock.npm, and Promise.all is awaited
DenoAll ==
    /\ dPc = "start"
    /\ ~dAllow.given
    /\ LET r == IF dLock.npm.present THEN StorePaths(AllKeys(dLock), 1)
                ELSE Throw("TypeError")
       IN IF r.ok
          THEN /\ dCollected' = r.val
               /\ dPromised' = 1..Len(r.val)
               /\ dValues' = Awaited(r.val, 1..Len(r.val))
               /\ dPc' = "await"
               /\ UNCHANGED dErr
          ELSE /\ DenoFail(r.err)
               /\ UNCHANGED <<dCollected, dPromised, dValues>>
    /\ UNCHANGED <<dLock, dFs, dAllow, dCatalog, dWsFrontier, dRegDeps, dFrontier,
                   dI, dToken, dEntry, dResult, denoPlace, dDir, dLockDir,
                   denoCallbacks, notDeno>>

\* selectDenoDependencies: workspacesWithLocalDeps and matchedLocalWorkspaces
DenoCatalog ==
    /\ dPc = "start"
    /\ dAllow.given
    /\ LET r == BuildCatalog(LockDir, iterDenoWorkspaceMembers(dLock), dFs, <<>>)
       IN IF r.ok
          THEN /\ dCatalog' = r.val
               /\ dWsFrontier' = matchedLocalWorkspaces(r.val, dAllow.names, 1)
               /\ dPc' = "seed"
               /\ UNCHANGED dErr
          ELSE /\ DenoFail(r.err)
               /\ UNCHANGED <<dCatalog, dWsFrontier>>
    /\ UNCHANGED <<dLock, dFs, dAllow, dRegDeps, dFrontier, dCollected, dI, dToken,
                   dEntry, dResult, denoPlace, denoWaits, notDeno>>

\* selectDenoDependencies: registryDependencies seeded from the registry keys
DenoSeed ==
    /\ dPc = "seed"
    /\ LET r == SeedRegistries(dLock, KNOWN_REGISTRIES, dAllow.names, <<>>)
       IN /\ dRegDeps' = r.val
          /\ IF r.ok
             THEN /\ dPc' = "workspaces"
                  /\ UNCHANGED dErr
             ELSE DenoFail(r.err)
    /\ UNCHANGED <<dLock, dFs, dAllow, dCatalog, dWsFrontier, dFrontier, dCollected,
                   dI, dToken, dEntry, dResult, denoPlace, denoWaits, notDeno>>

\* one iteration of the workspace drain
DenoWorkspaceStep ==
    /\ dPc = "workspaces"
    /\ dWsFrontier # <<>>
    /\ dI < MAX_ITERS
    /\ LET popped == dWsFrontier[Len(dWsFrontier)]
           rest == SubSeq(dWsFrontier, 1, Len(dWsFrontier) - 1)
           collected == Append(dCollected, PathJoin(LockDir, popped.path))
       IN IF popped.member <= 0
          THEN /\ DenoFail("TypeError")
               /\ dWsFrontier' = rest
               /\ dCollected' = collected
               /\ UNCHANGED <<dRegDeps, dI>>
          ELSE LET workspace == dCatalog[popped.member]
                   r == AddMemberDependencies(dLock, workspace.dependencies, dRegDeps)
               IN /\ dWsFrontier' =
                        rest \o PushedWorkspaces(dCatalog, workspace.workspaceDependencies)
                  /\ dCollected' = collected
                  /\ dRegDeps' = r.val
                  /\ IF r.ok
                     THEN /\ dI' = dI + 1
                          /\ UNCHANGED <<dPc, dErr>>
                     ELSE /\ DenoFail(r.err)
                          /\ UNCHANGED dI
    /\ UNCHANGED <<dLock, dFs, dAllow, dCatalog, dFrontier, dToken, dEntry, dResult,
                   denoPlace, denoWaits, notDeno>>

\* the workspace drain's loop condition fails: the frontier is empty or the
\* limit is reached; the registry frontier is Array.from(registryDependencies)
DenoWorkspacesDone ==
    /\ dPc = "workspaces"
    /\ ~(dWsFrontier # <<>> /\ dI < MAX_ITERS)
    /\ dFrontier' = dRegDeps
    /\ dI' = 0
    /\ dPc' = "registry"
    /\ UNCHANGED <<dLock, dFs, dAllow, dCatalog, dWsFrontier, dRegDeps, dCollected,
                   dToken, dEntry, dResult, dErr, denoPlace, denoWaits, notDeno>>

\* one iteration of the registry drain: the store paths it pushes are
\* promises of realpath, started also where the iteration then throws
DenoRegistryStep ==
    /\ dPc = "registry"
    /\ dFrontier # <<>>
    /\ dI < MAX_ITERS
    /\ LET versionString == dFrontier[Len(dFrontier)]
           rest == SubSeq(dFrontier, 1, Len(dFrontier) - 1)
           r == RegistryIteration(dLock, versionString, rest, dRegDeps, dCollected)
       IN /\ dToken' = versionString
          /\ dEntry' = r.entry
          /\ dCollected' = r.collected
          /\ dPromised' = dPromised \cup ((Len(dCollected) + 1)..Len(r.collected))
          /\ IF r.err = ""
             THEN /\ dFrontier' = r.queue.frontier
                  /\ dRegDeps' = r.queue.registryDependencies
                  /\ dI' = dI + 1
                  /\ UNCHANGED <<dPc, dErr>>
             ELSE /\ DenoFail(r.err)
                  /\ dFrontier' = rest
                  /\ UNCHANGED <<dRegDeps, dI>>
    /\ UNCHANGED <<dLock, dFs, dAllow, dCatalog, dWsFrontier, dResult, denoPlace,
                   dDir, dLockDir, dValues, denoCallbacks, notDeno>>

\* the registry drain's loop condition fails: selectDenoDependencies returns
\* Promise.all(collectedDependencyPaths), which getDenoDependencies awaits
DenoReturn ==
    /\ dPc = "registry"
    /\ ~(dFrontier # <<>> /\ dI < MAX_ITERS)
    /\ dValues' = Awaited(dCollected, dPromised)
    /\ dPc' = "await"
    /\ UNCHANGED <<dLock, dFs, dAllow, dCatalog, dWsFrontier, dRegDeps, dFrontier,
                   dCollected, dI, dToken, dEntry, dResult, dErr, denoPlace, dDir,
                   dLockDir, dPromised, denoCallbacks, notDeno>>

\* one realpath calls back while the call awaits Promise.all, in any
\* order: its promise is fulfilled with the real path, or it rejects and
\* Promise.all rejects the call
DenoRealpath ==
    /\ dPc = "await"
    /\ \E i \in dPromised \ dCalled :
          /\ dCalled' = dCalled \cup {i}
          /\ LET r == RealPath(dDisk, dCollected[i])
             IN IF r.ok
                THEN /\ dValues' = [dValues EXCEPT ![i] = [settled |-> TRUE, value |-> r.val]]
                     /\ UNCHANGED <<dPc, dErr>>
                ELSE /\ DenoFail(r.err)
                     /\ UNCHANGED dValues
    /\ UNCHANGED <<dLock, dFs, dAllow, dCatalog, dWsFrontier, dRegDeps, dFrontier,
                   dCollected, dI, dToken, dEntry, dResult, denoPlace, dDir, dLockDir,
                   dPromised, dUnhandled, notDeno>>

\* a realpath started before the call rejected calls back after it.  The
\* promises of a drain that threw were never handed to Promise.all: one
\* that rejects is an unhandled rejection of the process.
DenoLateRealpath ==
    /\ dPc = "failed"
    /\ \E i \in dPromised \ dCalled :
          /\ dCalled' = dCalled \cup {i}
          /\ dUnhandled' = IF dValues = <<>> /\ ~RealPath(dDisk, dCollected[i]).ok
                           THEN dUnhandled \cup {i}
                           ELSE dUnhandled
    /\ UNCHANGED <<dLock, dFs, dAllow, dCatalog, dWsFrontier, dRegDeps, dFrontier,
                   dCollected, dI, dToken, dEntry, dResult, dPc, dErr, denoPlace, dDir,
                   dLockDir, dPromised, dValues, notDeno>>

\* every promise is fulfilled: getDenoDependencies adds the root when it is
\* missing and returns the paths without duplicates
DenoSelection ==
    /\ dPc = "await"
    /\ \A i \in 1..Len(dValues) : dValues[i].settled
    /\ dResult' = Selection(dCwd, Fulfilled(dValues))
    /\ dPc' = "done"
    /\ UNCHANGED <<dLock, dFs, dAllow, dCatalog, dWsFrontier, dRegDeps, dFrontier,
                   dCollected, dI, dToken, dEntry, dErr, denoPlace, denoWaits, notDeno>>

DenoNext ==
    \/ DenoStat
    \/ DenoRead
    \/ DenoAll
    \/ DenoCatalog
    \/ DenoSeed
    \/ DenoWorkspaceStep
    \/ DenoWorkspacesDone
    \/ DenoRegistryStep
    \/ DenoReturn
    \/ DenoRealpath
    \/ DenoLateRealpath
    \/ DenoSelection

----------------------------------------------------------------------------
(* Detection of the package manager (detectYarn, findDenoLock, detectDeno, *)
(* Npm.detect, detectUserPackageManager, getPackageManagerOrFallback).     *)
(* A directory is the sequence of its segments below the filesystem root,  *)
(* the root being the empty sequence.  Each stat is awaited: the call      *)
(* goes on when it is answered, and another process may write to the       *)
(* directories in between.                                                 *)

\* deepest project directory of the model
MaxDepth == 2
\* most writes of other processes during one call
MaxWrites == 1

\* the directory n levels below the filesystem root
Dir(n) == [i \in 1..n |-> <<"d">>]
Dirs == {Dir(n) : n \in 0..MaxDepth}

\* the names detectYarn looks for in cwd, in its order
YarnMarkers == <<"yarn.lock", ".yarnrc", ".yarnrc.yaml", ".pnp.cjs", ".yarn">>

\* detectYarn on a directory that nothing writes to meanwhile: some marker
\* exists in cwd
detectYarn(markers) == \E i \in 1..Len(YarnMarkers) : YarnMarkers[i] \in markers

\* one turn of detectYarn's loop: the answer of the stat of marker number
\* at, and the step to the next marker
detectYarnTurn(at, markers) ==
    IF YarnMarkers[at] \in markers THEN "found"
    ELSE IF at = Len(YarnMarkers) THEN "none"
    ELSE "next"

\* Npm.detect
detectNpm == TRUE

\* the value of a member that enum PackageManager does not have
Undefined == "undefined"

\* PackageManager.<member>, as the property key it is used as: the enum
\* has Npm, Yarn and None; Deno is no member of it
PackageManager(member) ==
    CASE member = "Npm" -> "0"
      [] member = "Yarn" -> "1"
      [] member = "None" -> "2"
      [] OTHER -> Undefined

\* the ids a caller passes: a member of PackageManager, or no id
PackageManagerMembers == {"Npm", "Yarn", "Deno", "None"}
NoId == "nothing"
IdValue(id) == IF id = NoId THEN Undefined ELSE PackageManager(id)

\* the names of the definitions
YarnName == "yarn"
DenoName == "deno"
NpmName == "npm"
NoName == "none"

\* packageManagers: the definitions under their computed keys
packageManagers ==
    << <<PackageManager("Npm"), NpmName>>,
       <<PackageManager("Yarn"), YarnName>>,
       <<PackageManager("Deno"), DenoName>> >>

\* getPackageManager(id): the definition under the key, or the throw
getPackageManager(id) ==
    LET at == {i \in 1..Len(packageManagers) : packageManagers[i][1] = id}
    IN IF at = {} THEN Throw("UnknownPackageManager")
       ELSE Return(packageManagers[MaxOf(at)][2])

\* the order detectUserPackageManager probes in
ProbeOrder == <<PackageManager("Yarn"), PackageManager("Deno"), PackageManager("Npm")>>

\* the definition whose detect the loop calls at place at
Probed(at) == getPackageManager(ProbeOrder[at]).val

\* packageManager.detect(cwd) of the named definition on directories that
\* nothing writes to meanwhile
Detect(name, cwd, markers, lockDirs) ==
    CASE name = YarnName -> detectYarn(markers)
      [] name = DenoName -> detectDeno(cwd, lockDirs)
      [] OTHER -> detectNpm

DetectIdle ==
    /\ gCwd = <<>>
    /\ gMarkers = {}
    /\ gLockDirs = {}
    /\ gId = NoId
    /\ gAt = 0
    /\ gProbed = <<>>
    /\ gOut = NoName
    /\ gPc = "idle"
    /\ gMarker = 0
    /\ gDir = <<>>
    /\ gErr = ""
    /\ gWrites = 0

\* getPackageManagerOrFallback(cwd, id) is called
DetectInit ==
    /\ gCwd \in Dirs
    /\ gMarkers \in SUBSET {YarnMarkers[i] : i \in 1..Len(YarnMarkers)}
    /\ gLockDirs \in SUBSET Dirs
    /\ gId \in PackageManagerMembers \cup {NoId}
    /\ gAt = 1
    /\ gProbed = <<>>
    /\ gOut = NoName
    /\ gPc = "start"
    /\ gMarker = 0
    /\ gDir = <<>>
    /\ gErr = ""
    /\ gWrites = 0

\* the directories, which only other processes write to
detectFiles == <<gCwd, gMarkers, gLockDirs, gWrites>>

\* id ?? await detectUserPackageManager(cwd): the id has a value, and
\* getPackageManager(id) returns its definition or throws
DetectSupplied ==
    /\ gPc = "start"
    /\ IdValue(gId) # Undefined
    /\ LET pm == getPackageManager(IdValue(gId))
       IN IF pm.ok
          THEN /\ gOut' = pm.val
               /\ gPc' = "done"
               /\ UNCHANGED gErr
          ELSE /\ gErr' = pm.err
               /\ gPc' = "failed"
               /\ UNCHANGED gOut
    /\ UNCHANGED <<detectFiles, gId, gAt, gProbed, gMarker, gDir, notDetect>>

\* the id is undefined: detectUserPackageManager starts
DetectStart ==
    /\ gPc = "start"
    /\ IdValue(gId) = Undefined
    /\ gPc' = "probe"
    /\ UNCHANGED <<detectFiles, gId, gAt, gProbed, gOut, gMarker, gDir, gErr, notDetect>>

\* one iteration of detectUserPackageManager's loop starts:
\* packageManager.detect(cwd) is called and awaited.  The return after the
\* loop is never reached: the last probe, Npm.detect, succeeds.
DetectCall ==
    /\ gPc = "probe"
    /\ gAt <= Len(ProbeOrder)
    /\ gProbed' = Append(gProbed, Probed(gAt))
    /\ gMarker' = 1
    /\ gDir' = gCwd
    /\ gPc' = "stat"
    /\ UNCHANGED <<detectFiles, gId, gAt, gOut, gErr, notDetect>>

\* detect has answered true: the loop returns the name it is at, and
\* getPackageManagerOrFallback the definition under that name
DetectFound ==
    /\ gOut' = getPackageManager(ProbeOrder[gAt]).val
    /\ gPc' = "done"
    /\ UNCHANGED gAt

\* detect has answered false: the loop goes to the next name
DetectNone ==
    /\ gAt' = gAt + 1
    /\ gPc' = "probe"
    /\ UNCHANGED gOut

\* detectYarn is answered one stat
DetectYarnStat ==
    /\ gPc = "stat"
    /\ Probed(gAt) = YarnName
    /\ LET turn == detectYarnTurn(gMarker, gMarkers)
       IN CASE turn = "found" -> (DetectFound /\ UNCHANGED gMarker)
            [] turn = "none" -> (DetectNone /\ UNCHANGED gMarker)
            [] OTHER -> (gMarker' = gMarker + 1 /\ UNCHANGED <<gAt, gOut, gPc>>)
    /\ UNCHANGED <<detectFiles, gId, gProbed, gDir, gErr, notDetect>>

\* detectDeno: one turn of findDenoLock
DetectDenoStat ==
    /\ gPc = "stat"
    /\ Probed(gAt) = DenoName
    /\ LET turn == findDenoLockTurn(gDir, gLockDirs)
       IN /\ gDir' = turn.dir
          /\ CASE turn.state = "found" -> DetectFound
               [] turn.state = "null" -> DetectNone
               [] OTHER -> UNCHANGED <<gAt, gOut, gPc>>
    /\ UNCHANGED <<detectFiles, gId, gProbed, gMarker, gErr, notDetect>>

\* Npm.detect resolves with true
DetectNpm ==
    /\ gPc = "stat"
    /\ Probed(gAt) = NpmName
    /\ DetectFound
    /\ UNCHANGED <<detectFiles, gId, gProbed, gMarker, gDir, gErr, notDetect>>

\* another process creates or removes a yarn marker of cwd or a deno.lock
\* while detection waits
DetectWrite ==
    /\ gPc \in {"probe", "stat"}
    /\ gWrites < MaxWrites
    /\ gWrites' = gWrites + 1
    /\ \/ \E i \in 1..Len(YarnMarkers) :
             /\ gMarkers' = IF YarnMarkers[i] \in gMarkers THEN gMarkers \ {YarnMarkers[i]}
                            ELSE gMarkers \cup {YarnMarkers[i]}
             /\ UNCHANGED gLockDirs
       \/ \E dir \in Dirs :
             /\ gLockDirs' = IF dir \in gLockDirs THEN gLockDirs \ {dir}
                             ELSE gLockDirs \cup {dir}
             /\ UNCHANGED gMarkers
    /\ UNCHANGED <<gCwd, gId, gAt, gProbed, gOut, gPc, gMarker, gDir, gErr, notDetect>>

DetectNext ==
    \/ DetectSupplied
    \/ DetectStart
    \/ DetectCall
    \/ DetectYarnStat
    \/ DetectDenoStat
    \/ DetectNpm
    \/ DetectWrite

----------------------------------------------------------------------------
(* exec (util/exec): a subprocess awaited through a promise, with a        *)
(* cancellation token.  The token (util) is not among the sources: from    *)
(* the specification, a cancellation reaches the pending call through the  *)
(* listener that subscribe registered, while it is registered.  What       *)
(* subscribe does with a token cancelled before the call, and whether a    *)
(* token cancelled again calls its listeners again, is left open: either.  *)

\* token.subscribe(listener): whether the listener is called at once
SubscribeCalls(cancelled) == IF cancelled > 0 THEN BOOLEAN ELSE {FALSE}

\* token.cancel(): whether the listener is called
CancelCalls(listener, cancelled) ==
    IF listener # "subscribed" THEN {FALSE}
    ELSE IF cancelled = 0 THEN {TRUE}
    ELSE BOOLEAN

\* most cancellations of one token
MaxCancels == 2

Pending == [state |-> "pending", value |-> ""]
Resolved(stdout) == [state |-> "resolved", value |-> stdout]
Rejected(err) == [state |-> "rejected", value |-> err]

\* c(value) or e(err) of the promise executor: only the first call settles
Settle(promise, settlement) ==
    IF promise = Pending THEN settlement ELSE promise

\* disposeCancellationListener(), when there is one
Dispose(listener) == IF listener = "subscribed" THEN "disposed" ELSE listener

\* what the subprocess ends with when nothing kills it: an error, or its
\* standard output
ProcessOutcomes ==
    {[err |-> e, stdout |-> ""] : e \in {"ExitCode1", "MaxBuffer"}} \cup
    {[err |-> "", stdout |-> s] : s \in {"", "out", "10.2.0"}}

\* what cp.exec passes its callback for a child that kill() ended
KilledOutcome == [err |-> "Killed", stdout |-> ""]

\* what cp.exec passes its callback when the shell could not be spawned
SpawnFailed == [err |-> "SpawnFailed", stdout |-> ""]

\* the callback of cp.exec: e(err) on an error, c({stdout, stderr}) otherwise
Settlement(outcome) ==
    IF outcome.err # "" THEN Rejected(outcome.err) ELSE Resolved(outcome.stdout)

CancelErrors == {"Cancelled", "Aborted"}

\* child.kill(): the signal goes to the subprocess while it has not ended;
\* a child that has exited has no handle left and nothing is signalled; a
\* child whose spawn failed keeps, until cp.exec reports the error, a
\* handle that holds no process id of a subprocess: the signal goes
\* nowhere, or to process id 0, the process group of the caller
KillTargets(child) ==
    IF child \in {"running", "killed"} THEN {"child"}
    ELSE IF child = "failed" THEN {"nothing", "group"}
    ELSE {"nothing"}

\* the listener (lines 39 to 42) runs on child: child.kill(), then e(err).
\* A caller that its own signal ends runs nothing more; one that handles
\* the signal goes on.
ListenerRuns(child, pc) ==
    \E target \in KillTargets(child), survives \in BOOLEAN :
        /\ target # "group" => survives
        /\ xKills' = xKills + 1
        /\ xSignalled' = xSignalled \cup ({target} \ {"nothing"})
        /\ xChild' = IF target = "child" THEN "killed" ELSE child
        /\ xPc' = IF survives THEN pc ELSE "terminated"
        /\ xPromise' = IF survives THEN Settle(xPromise, Rejected(xCancelError))
                       ELSE xPromise
        /\ xCalls' = IF survives THEN Append(xCalls, Rejected(xCancelError)) ELSE xCalls
        /\ xEvents' = Append(xEvents, "cancel")

ExecIdle ==
    /\ xToken = FALSE
    /\ xSpawned = FALSE
    /\ xOutcome = [err |-> "", stdout |-> ""]
    /\ xCancelError = ""
    /\ xCancelled = 0
    /\ xChild = "none"
    /\ xListener = "none"
    /\ xPromise = Pending
    /\ xCalls = <<>>
    /\ xKills = 0
    /\ xSignalled = {}
    /\ xEvents = <<>>
    /\ xPc = "idle"

\* exec(command, options, cancellationToken?) is about to be called
ExecInit ==
    /\ xToken \in BOOLEAN
    /\ xSpawned \in BOOLEAN
    /\ xOutcome \in ProcessOutcomes
    /\ xCancelError \in (IF xToken THEN CancelErrors ELSE {""})
    /\ xCancelled = 0
    /\ xChild = "none"
    /\ xListener = "none"
    /\ xPromise = Pending
    /\ xCalls = <<>>
    /\ xKills = 0
    /\ xSignalled = {}
    /\ xEvents = <<>>
    /\ xPc = "called"

\* the promise executor: cp.exec spawns the child, or fails to and will
\* report it to the callback; the listener is subscribed, and a token that
\* is cancelled already calls it at once or not
ExecCall ==
    /\ xPc = "called"
    /\ xListener' = IF xToken THEN "subscribed" ELSE "none"
    /\ LET child == IF xSpawned THEN "running" ELSE "failed"
       IN \E called \in SubscribeCalls(xCancelled) :
             IF called
             THEN ListenerRuns(child, "running")
             ELSE /\ xChild' = child
                  /\ xPc' = "running"
                  /\ UNCHANGED <<xPromise, xCalls, xKills, xSignalled, xEvents>>
    /\ UNCHANGED <<xToken, xSpawned, xOutcome, xCancelError, xCancelled, notExec>>

\* the token is cancelled, before the call, while it is pending or after
\* it: the listener runs while it is registered (on a token cancelled
\* before, it runs or not)
ExecCancel ==
    /\ xToken
    /\ xPc \in {"called", "running", "ended"}
    /\ xCancelled < MaxCancels
    /\ xCancelled' = xCancelled + 1
    /\ \E called \in CancelCalls(xListener, xCancelled) :
          IF called
          THEN ListenerRuns(xChild, xPc)
          ELSE UNCHANGED <<xChild, xPromise, xCalls, xKills, xSignalled, xEvents, xPc>>
    /\ UNCHANGED <<xToken, xSpawned, xOutcome, xCancelError, xListener, notExec>>

\* the subprocess ends by itself; nothing makes it
ExecExit ==
    /\ xPc = "running"
    /\ xChild = "running"
    /\ xChild' = "exited"
    /\ UNCHANGED <<xToken, xSpawned, xOutcome, xCancelError, xCancelled, xListener,
                   xPromise, xCalls, xKills, xSignalled, xEvents, xPc, notExec>>

\* cp.exec runs the callback (lines 26 to 36) once the child has ended or
\* the spawn has failed: a killed child ends with the kill's error, or with
\* its own outcome when it was ending already
ExecCallback ==
    /\ xPc = "running"
    /\ xChild \in {"exited", "killed", "failed"}
    /\ \E outcome \in (IF xChild = "failed" THEN {SpawnFailed}
                       ELSE IF xChild = "killed" THEN {KilledOutcome, xOutcome}
                       ELSE {xOutcome}) :
          /\ xPromise' = Settle(xPromise, Settlement(outcome))
          /\ xCalls' = Append(xCalls, Settlement(outcome))
    /\ xListener' = Dispose(xListener)
    /\ xChild' = IF xChild = "failed" THEN "failed" ELSE "exited"
    /\ xEvents' = Append(xEvents, "complete")
    /\ xPc' = "ended"
    /\ UNCHANGED <<xToken, xSpawned, xOutcome, xCancelError, xCancelled, xKills,
                   xSignalled, notExec>>

ExecNext ==
    \/ ExecCall
    \/ ExecCancel
    \/ ExecExit
    \/ ExecCallback

----------------------------------------------------------------------------
(* The enumeration-only resolver (npm.ts): checkNPM and getNpmDependencies. *)
(* Each exec is awaited; what the command ends with is an input.           *)

\* String.prototype.trim removes the WhiteSpace and the LineTerminator
\* characters of ECMAScript from both ends: tab, vertical tab, form feed,
\* the byte order mark, the space separators (Zs), line feed, carriage
\* return, and the line and paragraph separators.  A character outside the
\* module's character set is the element that spells its code point.
SpaceSeparators ==
    {" ", "\\u00A0", "\\u1680", "\\u2000", "\\u2001", "\\u2002", "\\u2003", "\\u2004",
     "\\u2005", "\\u2006", "\\u2007", "\\u2008", "\\u2009", "\\u200A", "\\u202F",
     "\\u205F", "\\u3000"}
WhiteSpace ==
    {"\t", "\\u000B", "\f", "\\uFEFF"} \cup SpaceSeparators \cup LineTerminators
RECURSIVE TrimStart(_)
TrimStart(s) == IF s # <<>> /\ Head(s) \in WhiteSpace THEN TrimStart(Tail(s)) ELSE s
RECURSIVE TrimEnd(_)
TrimEnd(s) ==
    IF s # <<>> /\ s[Len(s)] \in WhiteSpace THEN TrimEnd(SubSeq(s, 1, Len(s) - 1)) ELSE s
Trim(s) == TrimEnd(TrimStart(s))

\* /^3\.7\.[0123]$/.test(version)
BrokenNpm(version) ==
    /\ Len(version) = 5
    /\ SubSeq(version, 1, 4) = <<"3", ".", "7", ".">>
    /\ version[5] \in {"0", "1", "2", "3"}

\* stdout.split(/[\r\n]/)
RECURSIVE SplitLines(_)
SplitLines(s) ==
    LET at == {i \in 1..Len(s) : s[i] \in {"\r", "\n"}}
    IN IF at = {} THEN <<s>>
       ELSE <<SubSeq(s, 1, MinOf(at) - 1)>> \o SplitLines(SubSeq(s, MinOf(at) + 1, Len(s)))

\* path.isAbsolute
IsAbsolute(dir) == dir # <<>> /\ Head(dir) = "/"

\* what `npm -v` ends with
NpmVersionOutcomes ==
    {[err |-> "ENOENT", stdout |-> <<>>]} \cup
    {[err |-> "", stdout |-> v] :
        v \in { <<"3", ".", "7", ".", "0", "\n">>,
                <<"3", ".", "7", ".", "3", "\r", "\n">>,
                <<"3", ".", "7", ".", "1", "\f", "\n">>,
                <<"\\uFEFF", "3", ".", "7", ".", "2", "\\u2028">>,
                <<"\\u000B", "9", ".", "0", ".", "0", "\\u00A0", "\n">>,
                <<"3", ".", "7", ".", "4", "\n">>,
                <<"3", ".", "7", ".", "1", "0", "\n">>,
                <<"1", "3", ".", "7", ".", "1", "\n">>,
                <<"9", ".", "0", ".", "0", "\n">> }}

\* what `npm list --parseable` ends with: an error, or its lines
NpmListOutcomes ==
    {[err |-> "ExitCode1", stdout |-> <<>>]} \cup
    {[err |-> "", stdout |-> l] :
        l \in { <<>>,
                <<"/", "cwd", "\n">>,
                <<"/", "cwd", "\n", "/", "cwd", "/", "node_modules", "/", "a", "\n">>,
                <<"/", "cwd", "\r", "\n", "/", "cwd", "/", "node_modules", "/", "a">>,
                <<"/", "cwd", "\n", "npm", " ", "WARN", "\n", "/", "cwd", "\n">> }}

NpmIdle ==
    /\ nVersion = [err |-> "", stdout |-> <<>>]
    /\ nListing = [err |-> "", stdout |-> <<>>]
    /\ nResult = <<>>
    /\ nPc = "idle"
    /\ nErr = ""

\* getNpmDependencies(cwd) is called
NpmInit ==
    /\ nVersion \in NpmVersionOutcomes
    /\ nListing \in NpmListOutcomes
    /\ nResult = <<>>
    /\ nPc = "check"
    /\ nErr = ""

\* checkNPM: `npm -v` is awaited and a known-broken version rejected
NpmCheck ==
    /\ nPc = "check"
    /\ IF nVersion.err # ""
       THEN nPc' = "failed" /\ nErr' = nVersion.err
       ELSE IF BrokenNpm(Trim(nVersion.stdout))
       THEN nPc' = "failed" /\ nErr' = "IncompatibleNpm"
       ELSE nPc' = "list" /\ UNCHANGED nErr
    /\ UNCHANGED <<nVersion, nListing, nResult, notNpm>>

\* `npm list` is awaited: every line that is an absolute path is returned
NpmList ==
    /\ nPc = "list"
    /\ IF nListing.err # ""
       THEN nPc' = "failed" /\ nErr' = nListing.err /\ UNCHANGED nResult
       ELSE /\ nResult' = SelectSeq(SplitLines(nListing.stdout), IsAbsolute)
            /\ nPc' = "done"
            /\ UNCHANGED nErr
    /\ UNCHANGED <<nVersion, nListing, notNpm>>

NpmNext ==
    \/ NpmCheck
    \/ NpmList

----------------------------------------------------------------------------
(* The location of the lock document: detectDeno(cwd) and the first lines  *)
(* of getDenoDependencies(cwd), both called on the same directories, each  *)
(* going on when its stat is answered, while another process may write.    *)

LocateIdle ==
    /\ lCwd = <<>>
    /\ lLockDirs = {}
    /\ lDetected = "unknown"
    /\ lLock = NoLock
    /\ lErr = ""
    /\ lPc = "idle"
    /\ lDir = <<>>
    /\ lDetectDir = <<>>
    /\ lWrites = 0

LocateInit ==
    /\ lCwd \in Dirs
    /\ lLockDirs \in SUBSET Dirs
    /\ lDetected = "unknown"
    /\ lLock = NoLock
    /\ lErr = ""
    /\ lPc = "start"
    /\ lDir = lCwd
    /\ lDetectDir = lCwd
    /\ lWrites = 0

\* Deno.detect(cwd): one turn of its findDenoLock
LocateDetect ==
    /\ lPc # "idle"
    /\ lDetected = "unknown"
    /\ LET turn == findDenoLockTurn(lDetectDir, lLockDirs)
       IN /\ lDetectDir' = turn.dir
          /\ lDetected' = CASE turn.state = "found" -> "yes"
                            [] turn.state = "null" -> "no"
                            [] OTHER -> "unknown"
    /\ UNCHANGED <<lCwd, lLockDirs, lLock, lErr, lPc, lDir, lWrites, notLocate>>

\* getDenoDependencies up to the read of the lock file: one turn of its
\* findDenoLock, and the throw when that returns null
LocateResolve ==
    /\ lPc = "start"
    /\ LET turn == findDenoLockTurn(lDir, lLockDirs)
       IN /\ lDir' = turn.dir
          /\ CASE turn.state = "found" ->
                    /\ lPc' = "located"
                    /\ lLock' = LockIn(turn.dir)
                    /\ UNCHANGED lErr
               [] turn.state = "null" ->
                    /\ lPc' = "failed"
                    /\ lErr' = "CouldNotFindDenoLock"
                    /\ UNCHANGED lLock
               [] OTHER -> UNCHANGED <<lPc, lLock, lErr>>
    /\ UNCHANGED <<lCwd, lLockDirs, lDetected, lDetectDir, lWrites, notLocate>>

\* another process creates or removes a deno.lock while a call waits
LocateWrite ==
    /\ lPc = "start" \/ (lPc # "idle" /\ lDetected = "unknown")
    /\ lWrites < MaxWrites
    /\ lWrites' = lWrites + 1
    /\ \E dir \in Dirs :
          lLockDirs' = IF dir \in lLockDirs THEN lLockDirs \ {dir}
                       ELSE lLockDirs \cup {dir}
    /\ UNCHANGED <<lCwd, lDetected, lLock, lErr, lPc, lDir, lDetectDir, notLocate>>

LocateNext ==
    \/ LocateDetect
    \/ LocateResolve
    \/ LocateWrite

\* what no operation of the model touches while another part runs
OthersIdle == DetectIdle /\ ExecIdle /\ LocateIdle /\ NpmIdle

SpecDenoInit == DenoInit /\ SplitIdle /\ YarnIdle /\ OthersIdle

SpecDeno == SpecDenoInit /\ [][DenoNext]_vars

----------------------------------------------------------------------------
(* The specifications: one per resolver, the others idle. *)

SpecSplitInit == SplitInit /\ YarnIdle /\ DenoIdle /\ OthersIdle

SpecSplit == SpecSplitInit /\ [][SplitNext]_vars

SpecTreeInit == YarnInit /\ SplitIdle /\ DenoIdle /\ OthersIdle

SpecTree == SpecTreeInit /\ [][YarnNext]_vars

----------------------------------------------------------------------------
(* The tree resolver's claims, stated over the raw forest. *)

TopPrefix == PathJoin(Cwd, NodeModules)

\* the paths of the tree resolver's Selection
YarnPaths == {yResult[i] : i \in 1..Len(yResult)}

\* the paths of a raw tree's nodes, none pruned
RECURSIVE RawSubtreePaths(_, _)
RawSubtreePaths(prefix, tree) ==
    LET here == PathJoin(prefix, NodeName(tree.name))
    IN {here} \cup UNION {RawSubtreePaths(PathJoin(here, NodeModules), tree.children[i]) :
                            i \in 1..Len(tree.children)}

\* the top-level trees the names of S's children lead to, transitively
RECURSIVE ReachClosure(_)
ReachClosure(S) ==
    LET more == {j \in 1..Len(yTrees) :
                    \E i \in S : \E c \in 1..Len(yTrees[i].children) :
                        NodeName(yTrees[i].children[c].name) = NodeName(yTrees[j].name)}
    IN IF more \subseteq S THEN S ELSE ReachClosure(S \cup more)

\* the top-level trees the allow-list names
SeedTrees ==
    {i \in 1..Len(yTrees) :
        \E k \in 1..Len(yAllow.names) : NodeName(yTrees[i].name) = yAllow.names[k]}

\* C1: with an allow-list, a successful result holds the path of every node
\* the allow-list names and of every descendant, in the unpruned tree, of
\* every node the walk reaches.
C1_AllowListSubtrees ==
    (yPc = "done" /\ yAllow.given) =>
        /\ \A k \in 1..Len(yAllow.names) :
              /\ \E i \in 1..Len(yTrees) : NodeName(yTrees[i].name) = yAllow.names[k]
              /\ PathJoin(TopPrefix, yAllow.names[k]) \in YarnPaths
        /\ \A i \in ReachClosure(SeedTrees) :
              RawSubtreePaths(TopPrefix, yTrees[i]) \subseteq YarnPaths

\* a successful selection whose result holds a node two levels below a
\* selected node
C1_Witness ==
    /\ yPc = "done"
    /\ yAllow.given
    /\ yAllow.names # <<>>
    /\ \E p \in YarnPaths : Len(p) >= 7

RawTopDuplicate ==
    \E i, j \in 1..Len(yTrees) :
        i < j /\ NodeName(yTrees[i].name) = NodeName(yTrees[j].name)

\* C7: with an allow-list, two top-level nodes of one name make the call
\* fail with the duplicate-name error, whatever the allow-list names; no
\* Selection is returned.
C7_DuplicateNamesFail ==
    (yAllow.given /\ RawTopDuplicate /\ yPc \notin {"start", "index"}) =>
        (yPc = "failed" /\ yErr = "DuplicateName" /\ yResult = <<>>)

\* the failure under an allow-list that names neither of the two nodes
C7_Witness ==
    /\ yPc = "failed"
    /\ yErr = "DuplicateName"
    /\ yAllow.names # <<>>
    /\ \A k \in 1..Len(yAllow.names) :
          \A i \in 1..Len(yTrees) : NodeName(yTrees[i].name) # yAllow.names[k]

\* the label contains "@^" or "@~"
ContainsRange(label) ==
    \E i \in 1..(Len(label) - 1) :
        SubSeq(label, i, i + 1) \in {<<"@", "^">>, <<"@", "~">>}

\* the paths of the nodes with no range label on them or above them
RECURSIVE SurvivorPaths(_, _)
SurvivorPaths(prefix, tree) ==
    IF ContainsRange(tree.name) THEN {}
    ELSE LET here == PathJoin(prefix, NodeName(tree.name))
         IN {here} \cup UNION {SurvivorPaths(PathJoin(here, NodeModules), tree.children[i]) :
                                 i \in 1..Len(tree.children)}

RECURSIVE SumOver(_, _, _)
SumOver(Count(_), nodes, i) ==
    IF i > Len(nodes) THEN 0 ELSE Count(nodes[i]) + SumOver(Count, nodes, i + 1)

\* how many nodes have no range label on them or above them
RECURSIVE SurvivorCount(_)
SurvivorCount(tree) ==
    IF ContainsRange(tree.name) THEN 0
    ELSE 1 + SumOver(SurvivorCount, tree.children, 1)

\* how many nodes a raw or a normalized tree has
RECURSIVE NodeCount(_)
NodeCount(tree) == 1 + SumOver(NodeCount, tree.children, 1)

\* C8: with no allow-list a node whose label contains "@^" or "@~" goes
\* with its subtree, at any depth, and every other node whose ancestors
\* all stay has its path in the result; with an allow-list no node goes.
C8_PruneOnlyWithoutAllowList ==
    /\ (~yAllow.given /\ yPc = "done") =>
          /\ YarnPaths = {Cwd} \cup UNION {SurvivorPaths(TopPrefix, yTrees[i]) :
                                           i \in 1..Len(yTrees)}
          /\ SumOver(NodeCount, yDeps, 1) = SumOver(SurvivorCount, yTrees, 1)
    /\ (yAllow.given /\ yPc \notin {"idle", "start"}) =>
          SumOver(NodeCount, yDeps, 1) = SumOver(NodeCount, yTrees, 1)

\* a finished call without allow-list on a forest where a@^1 is the child
\* of a kept node, beside its sibling a@1
C8_Witness ==
    /\ yPc = "done"
    /\ ~yAllow.given
    /\ \E i \in 1..Len(yTrees) :
          yTrees[i] = Raw(Lb1, <<Raw(LaCaret, <<>>), Raw(La1, <<>>)>>)
    /\ PathJoin(PathJoin(PathJoin(TopPrefix, <<"b">>), NodeModules), <<"a">>) \in YarnPaths

----------------------------------------------------------------------------
(* The lockfile resolver's claims, stated over the lock document. *)

InResult(p) == \E i \in 1..Len(dResult) : dResult[i] = p

\* the store path of a package as a result holds it: the real path of its
\* store directory beside the lock file
StoreOf(packageAtVersion) ==
    LET r == denoPath(dDisk, LockDir, packageAtVersion)
    IN IF r.ok THEN r.val ELSE storePath(LockDir, packageAtVersion)

\* the name@version pairs a registry key is joined from: the key cut at
\* every underscore that is followed by a name and "@"
RECURSIVE KeyPackages(_)
KeyPackages(key) ==
    LET cuts == {i \in 1..Len(key) :
                    /\ key[i] = "_"
                    /\ \E j \in (i + 2)..Len(key) :
                          /\ key[j] = "@"
                          /\ \A h \in (i + 2)..(j - 1) : key[h] \notin {"@", "_"}}
    IN IF cuts = {} THEN {key}
       ELSE {SubSeq(key, 1, MinOf(cuts) - 1)}
            \cup KeyPackages(SubSeq(key, MinOf(cuts) + 1, Len(key)))

\* the bare package name of a registry key: what precedes the "@" of its
\* first version
BareName(key) ==
    SubSeq(key, 1, MinOf({i \in 2..Len(key) : key[i] = "@"} \cup {Len(key) + 1}) - 1)

Sections == {<<NpmId, dLock.npm>>, <<JsrId, dLock.jsr>>}

\* the registry sections of the lock document: what it holds under the
\* names of the known registries
RegistrySection(registryId) ==
    IF registryId \in {NpmId, JsrId} THEN Registry(dLock, registryId) ELSE Absent

\* C2: with an allow-list, every key of a known registry whose bare package
\* name is allow-listed is seeded, and a successful result holds the store
\* paths of that entry, also when the key merges further packages.
C2_AllowListedKeysSeeded ==
    (dAllow.given /\ dPc \in {"workspaces", "registry", "await", "done"}) =>
        \A s \in Sections : \A i \in 1..Len(s[2].entries) :
            ArrayIncludes(dAllow.names, BareName(s[2].entries[i].key)) =>
                /\ ArrayIncludes(dRegDeps, s[1] \o <<":">> \o s[2].entries[i].key)
                /\ dPc = "done" =>
                      \A p \in KeyPackages(s[2].entries[i].key) : InResult(StoreOf(p))

\* the workspace-internal dependencies package.json declares
WorkspaceNames(pkg) ==
    {pkg.dependencies[i][1] : i \in {j \in 1..Len(pkg.dependencies) :
        StartsWith(pkg.dependencies[j][2], WorkspacePrefix)}}

\* the workspace members reachable from those of S through
\* workspace-internal dependencies, by declared name
RECURSIVE MemberClosure(_)
MemberClosure(S) ==
    LET more == {j \in 1..Len(dFs) : \E i \in S : dFs[j].name \in WorkspaceNames(dFs[i])}
    IN IF more \subseteq S THEN S ELSE MemberClosure(S \cup more)

AllowedMembers == {i \in 1..Len(dFs) : ArrayIncludes(dAllow.names, dFs[i].name)}

\* C3: with an allow-list, a successful result holds the directory of every
\* allow-listed workspace member and of every member reachable from those
\* through workspace-internal dependencies, and a popped member pushes
\* each such dependency as a member of the catalog.
C3_WorkspaceClosure ==
    dAllow.given =>
        /\ \A i \in 1..Len(dWsFrontier) :
              /\ dWsFrontier[i].member # 0
              /\ dWsFrontier[i].path = dCatalog[dWsFrontier[i].member].path
        /\ dPc = "done" =>
              \A i \in MemberClosure(AllowedMembers) :
                  InResult(PathJoin(LockDir, dFs[i].path))

\* C4: without allow-list, the result holds the store path of every package
\* of every key of every known registry section of the document, and the
\* project root.
C4_AllRegistriesWithoutAllowList ==
    (~dAllow.given /\ dPc = "done") =>
        /\ InResult(dCwd)
        /\ \A s \in Sections : \A i \in 1..Len(s[2].entries) :
              \A p \in KeyPackages(s[2].entries[i].key) : InResult(StoreOf(p))

\* C5: a drain that stops at its iteration limit with a frontier that is
\* not empty makes the call fail; no Selection is returned from it.
C5_CapReachedFails ==
    /\ (dPc \in {"registry", "await", "done"}) => dWsFrontier = <<>>
    /\ dPc = "done" => dFrontier = <<>>

\* the registry and the package part of a token
TokenRegistry(token) ==
    SubSeq(token, 1, MinOf({i \in 1..Len(token) : token[i] = ":"} \cup {Len(token) + 1}) - 1)
TokenPackage(token) ==
    SubSeq(token, MinOf({i \in 1..Len(token) : token[i] = ":"} \cup {Len(token) + 1}) + 1,
           Len(token))

\* the token names a package and no version
Versionless(token) ==
    /\ token # <<>>
    /\ TokenPackage(token) # <<>>
    /\ \A i \in 2..Len(TokenPackage(token)) : TokenPackage(token)[i] # "@"

\* the keys of the token's registry that begin with its name and "@"
MatchingKeys(token) ==
    LET section == RegistrySection(TokenRegistry(token))
    IN {section.entries[i].key : i \in {j \in 1..Len(section.entries) :
            StartsWith(section.entries[j].key, TokenPackage(token) \o <<"@">>)}}

\* the order of the characters of keys
CharCode(c) ==
    CASE c = "+" -> 43 [] c = "." -> 46 [] c = "/" -> 47
      [] c = "0" -> 48 [] c = "1" -> 49 [] c = "2" -> 50 [] c = "3" -> 51
      [] c = ":" -> 58 [] c = "@" -> 64 [] c = "_" -> 95
      [] c = "a" -> 97 [] c = "b" -> 98 [] c = "c" -> 99 [] c = "f" -> 102
      [] c = "j" -> 106 [] c = "p" -> 112 [] c = "s" -> 115
      [] OTHER -> 128

\* s <= t in lexicographic order
RECURSIVE LexLeq(_, _)
LexLeq(s, t) ==
    IF s = <<>> THEN TRUE
    ELSE IF t = <<>> THEN FALSE
    ELSE IF Head(s) = Head(t) THEN LexLeq(Tail(s), Tail(t))
    ELSE CharCode(Head(s)) < CharCode(Head(t))

\* the last popped token has no version and its registry is a registry
\* section of the document
VersionlessPopped ==
    /\ Versionless(dToken)
    /\ RegistrySection(TokenRegistry(dToken)).present

\* C9: a popped token without version, of a registry section of the
\* document, resolves to the lexicographically first key of the section
\* that begins with name@, and that key's entry is processed; with no such
\* key the call fails with the missing-dependency error and returns no
\* Selection.
C9_FirstLexicographic ==
    VersionlessPopped =>
        IF MatchingKeys(dToken) = {}
        THEN dPc = "failed" /\ dErr = "CouldNotFindPackage" /\ dResult = <<>>
        ELSE /\ dEntry.registryId = TokenRegistry(dToken)
             /\ dEntry.key \in MatchingKeys(dToken)
             /\ \A k \in MatchingKeys(dToken) : LexLeq(dEntry.key, k)

\* the elements of an array
Elements(arr) == {arr[i] : i \in 1..Len(arr)}

\* the tokens the claim allows for a dependency string of an entry of
\* registryId: what follows an alias when an "@" comes before the first ":"
\* (the alias ends at one of these "@"), the string under the parent's
\* registry when it has no ":", the string itself otherwise
ClaimedTokens(registryId, dependency) ==
    LET colons == {i \in 1..Len(dependency) : dependency[i] = ":"}
        ats == IF colons = {} THEN {}
               ELSE {i \in 1..(MinOf(colons) - 1) : dependency[i] = "@"}
    IN IF ats # {} THEN {SubSeq(dependency, a + 1, Len(dependency)) : a \in ats}
       ELSE IF colons = {} THEN {registryId \o <<":">> \o dependency}
       ELSE {dependency}

\* the real target of a rebind read as registry:name@version, what follows
\* the last "@" before the first ":"
ClaimedToken(registryId, dependency) ==
    LET colons == {i \in 1..Len(dependency) : dependency[i] = ":"}
        ats == IF colons = {} THEN {}
               ELSE {i \in 1..(MinOf(colons) - 1) : dependency[i] = "@"}
    IN IF ats # {} THEN SubSeq(dependency, MaxOf(ats) + 1, Len(dependency))
       ELSE IF colons = {} THEN registryId \o <<":">> \o dependency
       ELSE dependency

\* the dependency strings of an entry (none where the key resolved to
\* something that is no entry)
EntryDependencies(denoLock, entry) ==
    LET entries == Registry(denoLock, entry.registryId).entries
        at == EntryAt(entries, entry.key)
    IN IF at = 0 THEN <<>> ELSE entries[at].dependencies

\* C10: when the registry drain has processed an entry, every dependency
\* string of the entry has been considered as the target behind the alias
\* of a rebind, under the parent's registry when it has no prefix, unchanged
\* otherwise: each has such a token in the visited set, the tokens new to
\* the visited set are such tokens, and they are what is enqueued.
C10_DependencyTokens ==
    [][(dPc = "registry" /\ dI' = dI + 1) =>
          LET dependencies == EntryDependencies(dLock, dEntry')
              claimed == [i \in 1..Len(dependencies) |->
                             ClaimedTokens(dEntry'.registryId, dependencies[i])]
              new == Elements(dRegDeps') \ Elements(dRegDeps)
          IN /\ \A i \in 1..Len(dependencies) : claimed[i] \cap Elements(dRegDeps') # {}
             /\ new \subseteq UNION {claimed[i] : i \in 1..Len(dependencies)}
             /\ Elements(dFrontier') =
                   Elements(SubSeq(dFrontier, 1, Len(dFrontier) - 1)) \cup new]_vars

----------------------------------------------------------------------------
(* The splitter's claims. *)

\* C6: a key joined from k >= 1 name@version pairs splits into exactly
\* those k pairs, in order, for every k.
C6_SplitsIntoAllPairs ==
    sPc = "done" => sOut = Return(sPairs)

----------------------------------------------------------------------------
(* One of the three resolvers is called: the tree resolver, the lockfile   *)
(* resolver or the enumeration-only resolver.                              *)

SpecNpmInit ==
    NpmInit /\ SplitIdle /\ YarnIdle /\ DenoIdle /\ DetectIdle /\ ExecIdle /\ LocateIdle

SpecResolversInit == SpecTreeInit \/ SpecDenoInit \/ SpecNpmInit

ResolversNext == YarnNext \/ DenoNext \/ NpmNext

SpecResolvers == SpecResolversInit /\ [][ResolversNext]_vars

\* two spellings of one path: with and without a trailing separator
SamePath(p, q) == Trimmed(p) = Trimmed(q)

\* the selection holds the root, and no path twice
RootOnceNoDuplicates(selection, root) ==
    /\ \E i \in 1..Len(selection) : SamePath(selection[i], root)
    /\ \A i, j \in 1..Len(selection) : SamePath(selection[i], selection[j]) => i = j

\* C11: every Selection the tree resolver or the lockfile resolver returns
\* holds the project root and holds no path twice, with or without
\* allow-list, whatever the forest or the lock document holds.
C11_RootOnceNoDuplicates ==
    /\ yPc = "done" => RootOnceNoDuplicates(yResult, Cwd)
    /\ dPc = "done" => RootOnceNoDuplicates(dResult, dCwd)

----------------------------------------------------------------------------
(* Cycles of rebind references in the lock document. *)

\* the dependency string is in rebind notation: an "@" comes before its
\* first ":"
IsRebind(dependency) ==
    \E c \in 1..Len(dependency) :
        /\ dependency[c] = ":"
        /\ \A h \in 1..(c - 1) : dependency[h] # ":"
        /\ \E a \in 1..(c - 1) : dependency[a] = "@"

\* the tokens an entry's rebind dependency strings lead to
RebindTargets(token) ==
    LET entries == RegistrySection(TokenRegistry(token)).entries
        at == EntryAt(entries, TokenPackage(token))
    IN IF at = 0 THEN {}
       ELSE {ClaimedToken(TokenRegistry(token), entries[at].dependencies[i]) :
                i \in {j \in 1..Len(entries[at].dependencies) :
                          IsRebind(entries[at].dependencies[j])}}

RECURSIVE RebindReach(_)
RebindReach(S) ==
    LET more == UNION {RebindTargets(t) : t \in S}
    IN IF more \subseteq S THEN S ELSE RebindReach(S \cup more)

\* the token's entry refers back to itself through rebind strings alone
OnRebindCycle(token) == token \in RebindReach(RebindTargets(token))

\* C12, as claimed: the allow-list enumeration of a lock document with a
\* rebind cycle never returns a Selection.
C12_RebindCycleNeverReturns ==
    (\E i \in 1..Len(dRegDeps) : OnRebindCycle(dRegDeps[i])) => dPc # "done"

\* C12, amended: in the enumeration of a lock document with a rebind cycle
\* that the allow-list reaches, a token already visited is not enqueued
\* again: the visited set and the frontier hold no token twice, every
\* token of the frontier is visited, and the registry drain has taken no
\* more iterations than there are visited tokens not in the frontier.
C12_RebindCycleEnds ==
    (\E i \in 1..Len(dRegDeps) : OnRebindCycle(dRegDeps[i])) =>
        /\ \A i, j \in 1..Len(dRegDeps) : dRegDeps[i] = dRegDeps[j] => i = j
        /\ dPc = "registry" =>
              /\ \A i, j \in 1..Len(dFrontier) : dFrontier[i] = dFrontier[j] => i = j
              /\ Elements(dFrontier) \subseteq Elements(dRegDeps)
              /\ dI + Len(dFrontier) <= Len(dRegDeps)

\* a@1 and f@1_p@2 name each other through rebinds; the call has returned
\* with the store paths of both
C12_Witness ==
    /\ dPc = "done"
    /\ dAllow = AllowList(<<Str_a>>)
    /\ OnRebindCycle(NpmId \o <<":">> \o Key_a1)
    /\ OnRebindCycle(NpmId \o <<":">> \o Key_fp)
    /\ InResult(StoreOf(Key_a1))
    /\ \A p \in KeyPackages(Key_fp) : InResult(StoreOf(p))

----------------------------------------------------------------------------
(* The detector's claims. *)

SpecDetectInit ==
    DetectInit /\ SplitIdle /\ YarnIdle /\ DenoIdle /\ ExecIdle /\ LocateIdle /\ NpmIdle

SpecDetect == SpecDetectInit /\ [][DetectNext]_vars

\* the definition of the ecosystem a member of PackageManager names
EcosystemName(member) ==
    CASE member = "Yarn" -> YarnName
      [] member = "Deno" -> DenoName
      [] member = "Npm" -> NpmName
      [] OTHER -> NoName

\* the ids that name an ecosystem
Ecosystems == {"Yarn", "Deno", "Npm"}

\* C13: detection probes yarn, deno, npm in this order and returns the
\* first that detects: on directories nothing writes to meanwhile, yarn
\* whenever a yarn marker exists, also when a lock document is found, deno
\* only when no yarn marker exists and a lock document is found, npm
\* otherwise; an ecosystem the caller supplies is returned without any
\* probe.
C13_FixedProbeOrder ==
    /\ gId \in Ecosystems =>
          /\ gProbed = <<>>
          /\ gPc = "done" => gOut = EcosystemName(gId)
    /\ (gId = NoId /\ gPc = "done") =>
          /\ \E n \in 1..3 :
                /\ gProbed = SubSeq(<<YarnName, DenoName, NpmName>>, 1, n)
                /\ gOut = gProbed[n]
          /\ gWrites = 0 =>
                /\ gOut = YarnName <=> gMarkers # {}
                /\ gOut = DenoName <=> (gMarkers = {} /\ detectDeno(gCwd, gLockDirs))
                /\ gOut = NpmName <=> (gMarkers = {} /\ ~detectDeno(gCwd, gLockDirs))

----------------------------------------------------------------------------
(* The closure the registry drain computes. *)

\* the key a token names in its registry: the key itself, or for a token
\* without version the first key, in document order, that begins with the
\* name and "@"; <<>> when there is none
TokenKey(token) ==
    LET entries == RegistrySection(TokenRegistry(token)).entries
        exact == {i \in 1..Len(entries) : entries[i].key = TokenPackage(token)}
        named == {i \in 1..Len(entries) :
                    StartsWith(entries[i].key, TokenPackage(token) \o <<"@">>)}
    IN IF exact # {} THEN entries[MinOf(exact)].key
       ELSE IF Versionless(token) /\ named # {} THEN entries[MinOf(named)].key
       ELSE <<>>

\* the tokens of the dependency strings of the token's entry
TokenDependencies(token) ==
    LET entries == RegistrySection(TokenRegistry(token)).entries
        at == EntryAt(entries, TokenKey(token))
    IN IF at = 0 THEN {}
       ELSE {ClaimedToken(TokenRegistry(token), entries[at].dependencies[i]) :
                i \in 1..Len(entries[at].dependencies)}

RECURSIVE TokenClosure(_)
TokenClosure(S) ==
    LET more == UNION {TokenDependencies(t) : t \in S}
    IN IF more \subseteq S THEN S ELSE TokenClosure(S \cup more)

\* the tokens of the keys of the known registries whose bare package name
\* is allow-listed
AllowedKeyTokens ==
    UNION {{s[1] \o <<":">> \o s[2].entries[i].key :
              i \in {j \in 1..Len(s[2].entries) :
                        ArrayIncludes(dAllow.names, BareName(s[2].entries[j].key))}} :
           s \in Sections}

\* a member's range resolved through specifiers: the range up to its last
\* "@", then the exact version
ResolvedRange(range) ==
    SubSeq(range, 1, MaxOf({i \in 1..Len(range) : range[i] = "@"})) \o
    Specifier(dLock, range)

\* the place in the lock document of the member whose package.json is dFs[i]
LockMemberOf(i) ==
    LET members == iterDenoWorkspaceMembers(dLock)
    IN members[MinOf({j \in 1..Len(members) : members[j].path = dFs[i].path})]

\* the resolved registry dependencies of the allow-listed members and of
\* the members reachable from them
MemberTokens ==
    UNION {{ResolvedRange(LockMemberOf(i).dependencies[k]) :
              k \in 1..Len(LockMemberOf(i).dependencies)} :
           i \in MemberClosure(AllowedMembers)}

\* the store paths of the entries the tokens of S name
StorePathsOf(S) ==
    UNION {{StoreOf(p) : p \in KeyPackages(TokenKey(t))} :
           t \in {u \in S : TokenKey(u) # <<>>}}

\* C14: with an allow-list, the store paths of a successful result are
\* exactly those of the registry entries reachable from the seeds, the
\* allow-listed registry keys and the resolved registry dependencies of the
\* visited workspace members, through the entries' dependency lists.
C14_ExactRegistryClosure ==
    (dAllow.given /\ dPc = "done") =>
        {dValues[i].value : i \in dPromised}
            = StorePathsOf(TokenClosure(AllowedKeyTokens \cup MemberTokens))

----------------------------------------------------------------------------
(* Each traversal processes a node, member or token once. *)

NoRepeat(seq) == \A i, j \in 1..Len(seq) : seq[i] = seq[j] => i = j

\* the workspace directories recorded so far: the workspace drain runs
\* before the first store path is pushed
CollectedDirectories ==
    SubSeq(dCollected, 1, Cardinality({i \in 1..Len(dCollected) : i \notin dPromised}))

\* C15: the tree walk reaches no node twice, the workspace drain pops no
\* member twice and the registry drain pops no token twice, so that each
\* traversal ends within as many steps as there are nodes, members or
\* tokens, also on input that refers back to itself.
C15_ProcessedOnce ==
    /\ NoRepeat(yReached)
    /\ NoRepeat(CollectedDirectories)
    /\ dPc = "workspaces" => dI <= Len(dCatalog)
    /\ NoRepeat(dFrontier)
    /\ dPc = "registry" => dI + Len(dFrontier) <= Len(dRegDeps)

----------------------------------------------------------------------------
(* References of the lock document that do not resolve. *)

\* the token names a registry section that is absent, or no key of its
\* registry
Dangling(token) ==
    \/ ~RegistrySection(TokenRegistry(token)).present
    \/ TokenKey(token) = <<>>

\* C16: with an allow-list, a token the registry drain pops that names an
\* absent registry section or an absent key makes the call fail with an
\* error and no Selection, and a successful call has met no such token:
\* none is skipped.
C16_DanglingFails ==
    dAllow.given =>
        /\ (dToken # <<>> /\ Dangling(dToken)) =>
              /\ dPc = "failed"
              /\ dErr \in {"CouldNotFindRegistry", "CouldNotFindPackage", "TypeError"}
              /\ dResult = <<>>
        /\ dPc = "done" => \A i \in 1..Len(dRegDeps) : ~Dangling(dRegDeps[i])

----------------------------------------------------------------------------
(* The name index of the tree resolver. *)

\* the names of the nodes of a normalized forest, at every depth
RECURSIVE ForestNames(_)
ForestNames(deps) ==
    UNION {{deps[i].name} \cup ForestNames(deps[i].children) : i \in 1..Len(deps)}

\* C17: with an allow-list and unique names, the call fails with the
\* missing-dependency error only when an allow-listed name is the name of
\* no node of the forest; the walk into the children of a reached node
\* never raises it.
C17_MissingOnlyForAbsentSeed ==
    (yAllow.given /\ yPc = "failed" /\ yErr = "MissingDependency") =>
        \E k \in 1..Len(yAllow.names) : yAllow.names[k] \notin ForestNames(yDeps)

----------------------------------------------------------------------------
(* The fallback name of a label that does not parse. *)

\* the label up to its first "@"
BeforeFirstAt(label) ==
    SubSeq(label, 1, MinOf({i \in 1..Len(label) : label[i] = "@"} \cup {Len(label) + 1}) - 1)

\* C18: a top-level label that strict parsing rejects gets as its name the
\* label cut at its first "@", whatever the length of that name, and as
\* its path the join of the prefix and that name.
C18_FallbackStripsAtFirstAt ==
    yPc \notin {"idle", "start"} =>
        \A i \in 1..Len(yTrees) :
            (~parseSemver(yTrees[i].name).ok /\ ~HasRangeOperator(yTrees[i].name)) =>
                \E k \in 1..Len(yDeps) :
                    /\ yDeps[k].name = BeforeFirstAt(yTrees[i].name)
                    /\ yDeps[k].path = PathJoin(TopPrefix, BeforeFirstAt(yTrees[i].name))

----------------------------------------------------------------------------
(* Underscores in names and versions of a lock key. *)

\* the name of a name@version pair
PairName(pair) ==
    SubSeq(pair, 1, MinOf({i \in 2..Len(pair) : pair[i] = "@"} \cup {Len(pair) + 1}) - 1)

\* the version of a name@version pair
PairVersion(pair) == SubSeq(pair, Len(PairName(pair)) + 2, Len(pair))

HasUnderscore(s) == \E i \in 1..Len(s) : s[i] = "_"

\* C19: a key whose later package name holds an underscore splits into its
\* full pairs, and a key of one package whose version holds an underscore
\* is returned as itself alone.
C19_UnderscoresKept ==
    sPc = "done" =>
        /\ (\E i \in 2..Len(sPairs) : HasUnderscore(PairName(sPairs[i]))) =>
              sOut = Return(sPairs)
        /\ (Len(sPairs) = 1 /\ HasUnderscore(PairVersion(sPairs[1]))) =>
              sOut = Return(<<sKey>>)

----------------------------------------------------------------------------
(* exec under cancellation. *)

SpecExecInit ==
    ExecInit /\ SplitIdle /\ YarnIdle /\ DenoIdle /\ DetectIdle /\ LocateIdle /\ NpmIdle

SpecExec == SpecExecInit /\ [][ExecNext]_vars

\* what came first, a run of the listener (a cancellation that reached the
\* pending call) or a run of the callback of cp.exec (the completion)
CancelledFirst == xEvents # <<>> /\ Head(xEvents) = "cancel"
CompletedFirst == xEvents # <<>> /\ Head(xEvents) = "complete"

\* what the process ends with: its outcome, or the failure of its spawn
ProcessOutcome == IF xSpawned THEN xOutcome ELSE SpawnFailed

\* the outcome of the call follows what came first
ExecOutcome ==
    /\ CancelledFirst =>
          /\ xKills >= 1
          /\ xChild # "running"
          /\ xSignalled \subseteq {"child"}
          /\ xPromise = Rejected(xCancelError)
    /\ CompletedFirst =>
          /\ xPromise = Settlement(ProcessOutcome)
          /\ xListener # "subscribed"
          /\ xKills = 0

\* C20: under every interleaving of completion and cancellation the call
\* settles when the first of them happens, and settles once: a settled
\* promise never changes; a cancellation that comes first kills the
\* subprocess, signals nothing else and rejects the call with the
\* cancellation error; a completion that comes first settles the call with
\* the process outcome and disposes the listener, and a later cancellation
\* kills nothing and changes nothing.
C20_SettlesOnce ==
    /\ []ExecOutcome
    /\ [][xPromise # Pending => xPromise' = xPromise]_vars

----------------------------------------------------------------------------
(* The lock document's location. *)

SpecLocateInit ==
    LocateInit /\ SplitIdle /\ YarnIdle /\ DenoIdle /\ DetectIdle /\ ExecIdle /\ NpmIdle

SpecLocate == SpecLocateInit /\ [][LocateNext]_vars

\* the project directory, its parent, and so on up to the filesystem root
Chain(cwd) == {SubSeq(cwd, 1, n) : n \in 0..Len(cwd)}

\* the directories of the chain that hold a lock file
Holders == Chain(lCwd) \cap lLockDirs

\* C21: the resolver uses the lock file of the nearest directory of the
\* chain from the project directory up to and including the filesystem
\* root; it fails with the not-found error exactly when no directory of
\* the chain holds one; detection succeeds exactly when one does (on
\* directories nothing writes to meanwhile).
C21_NearestLockUpToRoot ==
  lWrites = 0 =>
    /\ lPc = "located" =>
          /\ lLock.found
          /\ lLock.dir \in Holders
          /\ \A h \in Holders : Len(h) <= Len(lLock.dir)
    /\ lPc \in {"located", "failed"} =>
          ((lPc = "failed" /\ lErr = "CouldNotFindDenoLock") <=> Holders = {})
    /\ lDetected # "unknown" => (lDetected = "yes" <=> Holders # {})

====
